---------------------------- MODULE Spec2Model ----------------------------
(***************************************************************************)
(* A model of the schema-tolerant analysis pipeline of htx_tap_dashboard:  *)
(* column detection (column_detect.py, htx_tap_analytics.py), date-range   *)
(* resolution and filtering (date_filter.py, analysis_minimal.py) and the  *)
(* KPI / chart / table builders of analysis_minimal.py.                    *)
(*                                                                         *)
(* Strings whose characters the code inspects (headers, candidate aliases, *)
(* preset tokens) are sequences of one-character strings.  A table is a    *)
(* record [columns, data]: the header sequence and the sequence of rows,   *)
(* each row a function from header to cell.  Timestamps are hours since    *)
(* 1970-01-01T00:00, dates are days since 1970-01-01, ISO date strings are *)
(* <<year, month, day>>.                                                   *)
(***************************************************************************)
EXTENDS Integers, Sequences, FiniteSets, TLC

VARIABLES
  df,          \* the table handed to the operation under analysis
  candidates,  \* find_col / find_column_fuzzy: the candidate alias list
  mode,        \* find_col: 'exact' or 'contains'
  found,       \* the header the resolver returned (None: nothing found)
  preset,      \* compute_preset_window: the preset token
  max_date,    \* compute_preset_window: the max date (a timestamp)
  window,      \* compute_preset_window: the returned <<start_iso, end_iso>>
  client_id,   \* run_full_analysis: the client id
  params,      \* run_full_analysis: the params mapping
  RAW_DATE_COL,\* date_filter.RAW_DATE_COL, the module-level variable
  calls,       \* the calls of run_full_analysis so far: what each returned,
               \* handed to apply_date_range and aggregated
  data,        \* htx_tap_analytics: the mapping of tables handed to an analysis
  args,        \* the other arguments of the operation under analysis
  ret,         \* what the operation under analysis returned
  pc           \* "ready", then the name of the operation that acted last

vars == <<df, candidates, mode, found, preset, max_date, window, client_id,
          params, RAW_DATE_COL, calls, data, args, ret, pc>>

\* Python's None where a string or a list is expected.  The code tests such
\* values by truth (`if not date_col`), which the empty string fails too.
None == <<>>

-----------------------------------------------------------------------------
(* Strings *)

\* The value of a function on 1..n as a tuple: TLC then holds the elements
\* rather than the expression that gives them.
Tuple(f) == f \o <<>>

\* F at the value of e: a local name bound to a value computed once.
Let(e, F(_)) == CHOOSE r \in {F(x) : x \in {e}} : TRUE

\* str.lower() on the letters A-Z.
LowerOf ==
  ("A" :> "a") @@ ("B" :> "b") @@ ("C" :> "c") @@ ("D" :> "d") @@ ("E" :> "e")
  @@ ("F" :> "f") @@ ("G" :> "g") @@ ("H" :> "h") @@ ("I" :> "i") @@ ("J" :> "j")
  @@ ("K" :> "k") @@ ("L" :> "l") @@ ("M" :> "m") @@ ("N" :> "n") @@ ("O" :> "o")
  @@ ("P" :> "p") @@ ("Q" :> "q") @@ ("R" :> "r") @@ ("S" :> "s") @@ ("T" :> "t")
  @@ ("U" :> "u") @@ ("V" :> "v") @@ ("W" :> "w") @@ ("X" :> "x") @@ ("Y" :> "y")
  @@ ("Z" :> "z")

\* str.lower() on one character.
LowerChar(c) == IF c \in DOMAIN LowerOf THEN LowerOf[c] ELSE c

\* str.lower()
lower(s) == Tuple([i \in DOMAIN s |-> LowerChar(s[i])])

\* Python's `a in b` for strings: a is a substring of b.
IsSubstring(a, b) ==
  \E i \in 0..(Len(b) - Len(a)) : SubSeq(b, i + 1, i + Len(a)) = a

\* str.replace(old, new) for a one-character old and a new of length <= 1.
RECURSIVE replace(_, _, _)
replace(s, old, new) ==
  IF s = <<>> THEN <<>>
  ELSE (IF Head(s) = old THEN new ELSE <<Head(s)>>) \o replace(Tail(s), old, new)

\* str.strip(): leading and trailing blanks removed.
RECURSIVE lstrip(_)
lstrip(s) == IF s # <<>> /\ Head(s) = " " THEN lstrip(Tail(s)) ELSE s
RECURSIVE rstrip(_)
rstrip(s) ==
  IF s # <<>> /\ s[Len(s)] = " " THEN rstrip(SubSeq(s, 1, Len(s) - 1)) ELSE s
strip(s) == rstrip(lstrip(s))

\* The set of elements of a sequence.
Range(s) == {s[i] : i \in DOMAIN s}

\* list.index(x): the first position of x in s.
IndexOf(s, x) == CHOOSE i \in DOMAIN s : s[i] = x /\ \A j \in 1..(i - 1) : s[j] # x

-----------------------------------------------------------------------------
(* Tables *)

\* pandas' DataFrame.empty: an axis of length 0.
IsEmpty(d) == Len(d.data) = 0 \/ Len(d.columns) = 0

\* df is None or df.empty: None is the mapping without keys, a table has the
\* keys columns and data.
is_None_or_empty(d) == DOMAIN d = {} \/ IsEmpty(d)

-----------------------------------------------------------------------------
(* column_detect.py: candidate lists *)

\* find_amount_col: candidates (src/column_detect.py:83-86)
amount_candidates ==
  << <<"n","e","t","_","p","r","i","c","e">>,   \* "net_price"
     <<"n","e","t"," ","p","r","i","c","e">>,   \* "net price"
     <<"n","e","t","_","s","a","l","e","s">>,   \* "net_sales"
     <<"n","e","t"," ","s","a","l","e","s">>,   \* "net sales"
     <<"s","a","l","e","s">>,   \* "sales"
     <<"r","e","v","e","n","u","e">>,   \* "revenue"
     <<"a","m","o","u","n","t">>,   \* "amount"
     <<"t","o","t","a","l">>,   \* "total"
     <<"p","r","i","c","e">> >>   \* "price"

\* find_datetime_col: additional (src/column_detect.py:103-108)
datetime_additional ==
  << <<"b","u","s","i","n","e","s","s","_","d","a","t","e">>,   \* "business_date"
     <<"o","r","d","e","r","_","d","a","t","e">>,   \* "order_date"
     <<"o","r","d","e","r"," ","d","a","t","e">>,   \* "order date"
     <<"c","r","e","a","t","e","d">>,   \* "created"
     <<"c","r","e","a","t","e","d","_","a","t">>,   \* "created_at"
     <<"c","l","o","s","e","d","_","a","t">>,   \* "closed_at"
     <<"o","p","e","n","e","d","_","a","t">>,   \* "opened_at"
     <<"t","i","m","e","s","t","a","m","p">>,   \* "timestamp"
     <<"t","r","a","n","s","a","c","t","i","o","n","_","d","a","t","e">>,   \* "transaction_date"
     <<"s","a","l","e","_","d","a","t","e">>,   \* "sale_date"
     <<"s","e","n","t"," ","d","a","t","e">>,   \* "sent date"
     <<"S","e","n","t"," ","D","a","t","e">>,   \* "Sent Date"
     <<"c","h","e","c","k"," ","o","p","e","n","e","d">>,   \* "check opened"
     <<"C","h","e","c","k"," ","O","p","e","n","e","d">>,   \* "Check Opened"
     <<"c","h","e","c","k"," ","c","l","o","s","e","d">>,   \* "check closed"
     <<"C","h","e","c","k"," ","C","l","o","s","e","d">>,   \* "Check Closed"
     <<"c","l","o","s","e"," ","d","a","t","e">>,   \* "close date"
     <<"C","l","o","s","e"," ","D","a","t","e">> >>   \* "Close Date"

\* find_employee_col: candidates (src/column_detect.py:123-127)
employee_candidates ==
  << <<"s","e","r","v","e","r">>,   \* "server"
     <<"e","m","p","l","o","y","e","e">>,   \* "employee"
     <<"e","m","p","l","o","y","e","e","_","n","a","m","e">>,   \* "employee_name"
     <<"s","t","a","f","f">>,   \* "staff"
     <<"c","a","s","h","i","e","r">>,   \* "cashier"
     <<"u","s","e","r">>,   \* "user"
     <<"u","s","e","r","n","a","m","e">>,   \* "username"
     <<"s","e","r","v","e","r"," ","n","a","m","e">>,   \* "server name"
     <<"S","e","r","v","e","r"," ","N","a","m","e">>,   \* "Server Name"
     <<"S","e","r","v","e","r">>,   \* "Server"
     <<"E","m","p","l","o","y","e","e">>,   \* "Employee"
     <<"C","r","e","a","t","e","d"," ","B","y">>,   \* "Created By"
     <<"B","a","r","t","e","n","d","e","r">> >>   \* "Bartender"

\* find_item_col: candidates (src/column_detect.py:140-142)
item_candidates ==
  << <<"i","t","e","m">>,   \* "item"
     <<"i","t","e","m","_","n","a","m","e">>,   \* "item_name"
     <<"m","e","n","u","_","i","t","e","m">>,   \* "menu_item"
     <<"p","r","o","d","u","c","t">>,   \* "product"
     <<"p","r","o","d","u","c","t","_","n","a","m","e">> >>   \* "product_name"

\* find_category_col: candidates (src/column_detect.py:155-157)
category_candidates ==
  << <<"c","a","t","e","g","o","r","y">>,   \* "category"
     <<"i","t","e","m","_","c","a","t","e","g","o","r","y">>,   \* "item_category"
     <<"p","r","o","d","u","c","t","_","c","a","t","e","g","o","r","y">>,   \* "product_category"
     <<"t","y","p","e">>,   \* "type"
     <<"d","e","p","a","r","t","m","e","n","t">> >>   \* "department"

\* find_void_flag_col: candidates (src/column_detect.py:170-172)
void_flag_candidates ==
  << <<"i","s","_","v","o","i","d">>,   \* "is_void"
     <<"i","s","_","v","o","i","d","e","d">>,   \* "is_voided"
     <<"v","o","i","d","e","d">>,   \* "voided"
     <<"v","o","i","d">>,   \* "void"
     <<"v","o","i","d","_","f","l","a","g">> >>   \* "void_flag"

\* find_discount_amount_col: candidates (src/column_detect.py:185-187)
discount_amount_candidates ==
  << <<"d","i","s","c","o","u","n","t">>,   \* "discount"
     <<"d","i","s","c","o","u","n","t","_","a","m","o","u","n","t">>,   \* "discount_amount"
     <<"d","i","s","c","o","u","n","t","e","d","_","a","m","o","u","n","t">>,   \* "discounted_amount"
     <<"p","r","o","m","o">>,   \* "promo"
     <<"c","o","m","p">> >>   \* "comp"

\* find_removal_flag_or_amount_col: candidates (src/column_detect.py:200-202)
removal_flag_or_amount_candidates ==
  << <<"r","e","m","o","v","e","d">>,   \* "removed"
     <<"r","e","m","o","v","a","l">>,   \* "removal"
     <<"i","s","_","r","e","m","o","v","e","d">>,   \* "is_removed"
     <<"d","e","l","e","t","e">>,   \* "delete"
     <<"d","e","l","e","t","e","d">> >>   \* "deleted"

\* find_reason_col: candidates (src/column_detect.py:215-218)
reason_candidates ==
  << <<"v","o","i","d","_","r","e","a","s","o","n">>,   \* "void_reason"
     <<"r","e","a","s","o","n">>,   \* "reason"
     <<"c","o","m","p","_","r","e","a","s","o","n">>,   \* "comp_reason"
     <<"r","e","m","o","v","a","l","_","r","e","a","s","o","n">>,   \* "removal_reason"
     <<"n","o","t","e">>,   \* "note"
     <<"c","o","m","m","e","n","t">>,   \* "comment"
     <<"d","e","s","c","r","i","p","t","i","o","n">> >>   \* "description"

\* find_order_id_col: candidates (src/column_detect.py:232-236)
order_id_candidates ==
  << <<"o","r","d","e","r","_","i","d">>,   \* "order_id"
     <<"c","h","e","c","k","_","i","d">>,   \* "check_id"
     <<"t","a","b","_","i","d">>,   \* "tab_id"
     <<"t","i","c","k","e","t","_","i","d">>,   \* "ticket_id"
     <<"r","e","c","e","i","p","t">>,   \* "receipt"
     <<"t","r","a","n","s","a","c","t","i","o","n","_","i","d">>,   \* "transaction_id"
     <<"O","r","d","e","r"," ","I","d">>,   \* "Order Id"
     <<"C","h","e","c","k"," ","I","d">>,   \* "Check Id"
     <<"T","i","c","k","e","t"," ","I","d">>,   \* "Ticket Id"
     <<"R","e","c","e","i","p","t"," ","N","u","m","b","e","r">>,   \* "Receipt Number"
     <<"T","r","a","n","s","a","c","t","i","o","n"," ","I","d">>,   \* "Transaction Id"
     <<"o","r","d","e","r"," ","i","d">>,   \* "order id"
     <<"c","h","e","c","k"," ","i","d">>,   \* "check id"
     <<"t","i","c","k","e","t"," ","i","d">>,   \* "ticket id"
     <<"r","e","c","e","i","p","t"," ","n","u","m","b","e","r">>,   \* "receipt number"
     <<"t","r","a","n","s","a","c","t","i","o","n"," ","i","d">> >>   \* "transaction id"

\* src/date_filter.py:14-33
CANDIDATE_DATE_COLUMNS ==
  << <<"s","e","n","t"," ","d","a","t","e">>,   \* "sent date"
     <<"S","e","n","t"," ","D","a","t","e">>,   \* "Sent Date"
     <<"o","r","d","e","r"," ","d","a","t","e">>,   \* "order date"
     <<"O","r","d","e","r"," ","D","a","t","e">>,   \* "Order Date"
     <<"d","a","t","e">>,   \* "date"
     <<"d","a","t","e","t","i","m","e">>,   \* "datetime"
     <<"c","r","e","a","t","e","d","_","a","t">>,   \* "created_at"
     <<"o","p","e","n","e","d","_","a","t">>,   \* "opened_at"
     <<"c","l","o","s","e","d","_","a","t">>,   \* "closed_at"
     <<"o","r","d","e","r","_","d","a","t","e">>,   \* "order_date"
     <<"b","u","s","i","n","e","s","s","_","d","a","t","e">>,   \* "business_date"
     <<"B","u","s","i","n","e","s","s"," ","D","a","t","e">>,   \* "Business Date"
     <<"t","i","m","e","s","t","a","m","p">>,   \* "timestamp"
     <<"t","r","a","n","s","a","c","t","i","o","n","_","d","a","t","e">>,   \* "transaction_date"
     <<"s","a","l","e","_","d","a","t","e">>,   \* "sale_date"
     <<"O","p","e","n","e","d">>,   \* "Opened"
     <<"C","r","e","a","t","e","d">>,   \* "Created"
     <<"C","l","o","s","e"," ","D","a","t","e">>,   \* "Close Date"
     <<"c","l","o","s","e"," ","d","a","t","e">>,   \* "close date"
     <<"C","h","e","c","k"," ","O","p","e","n","e","d">>,   \* "Check Opened"
     <<"c","h","e","c","k"," ","o","p","e","n","e","d">>,   \* "check opened"
     <<"C","h","e","c","k"," ","C","l","o","s","e","d">>,   \* "Check Closed"
     <<"c","h","e","c","k"," ","c","l","o","s","e","d">> >>   \* "check closed"

-----------------------------------------------------------------------------
(* column_detect.py: the resolver *)

\* normalize_columns: {col.lower(): col for col in df.columns} as the sequence
\* of its (key, value) items in the dict's order: a key keeps the position of
\* its first insertion and holds the last header written under it.
normalize_columns(d) ==
  IF is_None_or_empty(d) THEN <<>>
  ELSE
    Let(Tuple([i \in DOMAIN d.columns |-> lower(d.columns[i])]), LAMBDA low :
      LET cols == d.columns
          firsts == SelectSeq(Tuple([i \in DOMAIN cols |-> i]),
                      LAMBDA i : \A j \in 1..(i - 1) : low[j] # low[i])
          last(k) == CHOOSE i \in DOMAIN cols :
                        /\ low[i] = k
                        /\ \A j \in (i + 1)..Len(cols) : low[j] # k
      IN Tuple([n \in DOMAIN firsts |->
                  [key |-> low[firsts[n]], col |-> cols[last(low[firsts[n]])]]]))

\* The resolver with its loops exchanged: the headers are scanned in the
\* table's order and the first one that matches any candidate is returned.
find_col_header_first(d, cands, md) ==
  IF is_None_or_empty(d) THEN None
  ELSE
    LET cols == d.columns
        exact == {i \in DOMAIN cols :
                    \E c \in DOMAIN cands : lower(cols[i]) = lower(cands[c])}
        sub == {i \in DOMAIN cols :
                  \E c \in DOMAIN cands : IsSubstring(lower(cands[c]), lower(cols[i]))}
        first(S) == CHOOSE i \in S : \A j \in S : i <= j
    IN IF exact # {} THEN cols[first(exact)]
       ELSE IF md = "contains" /\ sub # {} THEN cols[first(sub)]
       ELSE None

\* The resolver in a single pass: each candidate in turn is tried for an exact
\* header and then, in 'contains' mode, for a header containing it, before the
\* next candidate is looked at.
find_col_single_pass(d, cands, md) ==
  IF is_None_or_empty(d) THEN None
  ELSE
    LET cols == d.columns
        exact(c) == {i \in DOMAIN cols : lower(cols[i]) = lower(cands[c])}
        sub(c) == IF md = "contains"
                  THEN {i \in DOMAIN cols : IsSubstring(lower(cands[c]), lower(cols[i]))}
                  ELSE {}
        hits == {c \in DOMAIN cands : exact(c) \cup sub(c) # {}}
        first(S) == CHOOSE i \in S : \A j \in S : i <= j
    IN IF hits = {} THEN None
       ELSE IF exact(first(hits)) # {} THEN cols[first(exact(first(hits)))]
       ELSE cols[first(sub(first(hits)))]

\* find_col: phase 1 scans the candidates for an exact (lower-cased) key of the
\* normalized mapping; phase 2, in 'contains' mode, scans the candidates and,
\* for each, the items of the mapping for a key containing it.
find_col(d, cands, md) ==
  IF is_None_or_empty(d) THEN None
  ELSE
    Let(normalize_columns(d), LAMBDA normalized :
    Let(Tuple([i \in DOMAIN cands |-> lower(cands[i])]), LAMBDA cand_lower :
      LET hasKey(c) == \E n \in DOMAIN normalized : normalized[n].key = c
          exact == {i \in DOMAIN cands : hasKey(cand_lower[i])}
          hasSub(c) == \E n \in DOMAIN normalized : IsSubstring(c, normalized[n].key)
          sub == {i \in DOMAIN cands : hasSub(cand_lower[i])}
          item(i, Match(_, _)) ==
            normalized[CHOOSE n \in DOMAIN normalized :
                         /\ Match(cand_lower[i], normalized[n].key)
                         /\ \A m \in 1..(n - 1) :
                              ~Match(cand_lower[i], normalized[m].key)]
          first(S) == CHOOSE i \in S : \A j \in S : i <= j
      IN IF exact # {}
         THEN item(first(exact), LAMBDA c, k : k = c).col
         ELSE IF md = "contains" /\ sub # {}
         THEN item(first(sub), IsSubstring).col
         ELSE None))

find_amount_col(d) == find_col(d, amount_candidates, "contains")
find_datetime_col(d) ==
  find_col(d, CANDIDATE_DATE_COLUMNS \o datetime_additional, "contains")
find_employee_col(d) == find_col(d, employee_candidates, "contains")
find_item_col(d) == find_col(d, item_candidates, "contains")
find_category_col(d) == find_col(d, category_candidates, "contains")
find_void_flag_col(d) == find_col(d, void_flag_candidates, "contains")
find_discount_amount_col(d) == find_col(d, discount_amount_candidates, "contains")
find_removal_flag_or_amount_col(d) ==
  find_col(d, removal_flag_or_amount_candidates, "contains")
find_reason_col(d) == find_col(d, reason_candidates, "contains")
find_order_id_col(d) == find_col(d, order_id_candidates, "contains")

\* The detection that gives up at the first role without a header: the roles
\* after it, in the order of the mapping, stay None.
detect_schema_stops_at_failure(d) ==
  LET roles == <<"amount", "datetime", "employee", "item", "category", "void_flag",
                 "discount_amount", "removal_flag_or_amount", "reason", "order_id">>
      finders == <<find_amount_col(d), find_datetime_col(d), find_employee_col(d),
                   find_item_col(d), find_category_col(d), find_void_flag_col(d),
                   find_discount_amount_col(d), find_removal_flag_or_amount_col(d),
                   find_reason_col(d), find_order_id_col(d)>>
  IN [r \in Range(roles) |->
        LET n == CHOOSE i \in DOMAIN roles : roles[i] = r
        IN IF \E i \in 1..n : finders[i] = None THEN None ELSE finders[n]]

\* detect_schema: the mapping from the ten roles to the detected headers.
detect_schema(d) ==
  [amount |-> find_amount_col(d),
   datetime |-> find_datetime_col(d),
   employee |-> find_employee_col(d),
   item |-> find_item_col(d),
   category |-> find_category_col(d),
   void_flag |-> find_void_flag_col(d),
   discount_amount |-> find_discount_amount_col(d),
   removal_flag_or_amount |-> find_removal_flag_or_amount_col(d),
   reason |-> find_reason_col(d),
   order_id |-> find_order_id_col(d)]

-----------------------------------------------------------------------------
(* htx_tap_analytics.py: the fuzzy resolver *)

\* The normalization that stops at lower-casing and stripping: the separators
\* are kept.
normalize_column_name_keeps_separators(name) == strip(lower(name))

\* normalize_column_name: lower-case, strip, '_' and '-' to ' ', blanks removed.
normalize_column_name(name) ==
  replace(replace(replace(strip(lower(name)), "_", <<" ">>), "-", <<" ">>), " ", <<>>)

\* find_column_fuzzy: the first header recorded under a normalized name wins;
\* the candidates are scanned in order.
find_column_fuzzy(d, cands) ==
  IF IsEmpty(d) THEN None
  ELSE
    LET cols == d.columns
        firstWith(k) == CHOOSE i \in DOMAIN cols :
                          /\ normalize_column_name(cols[i]) = k
                          /\ \A j \in 1..(i - 1) : normalize_column_name(cols[j]) # k
        hit == {i \in DOMAIN cands :
                  \E j \in DOMAIN cols :
                    normalize_column_name(cols[j]) = normalize_column_name(cands[i])}
    IN IF hit = {} THEN None
       ELSE LET i == CHOOSE i \in hit : \A j \in hit : i <= j
            IN cols[firstWith(normalize_column_name(cands[i]))]

-----------------------------------------------------------------------------
(* Cells, dates and timestamps *)

\* Cells are tagged records so that cells of different kinds compare unequal.
Num(n) == [k |-> "num", v |-> n]            \* a number
NaN == [k |-> "nan", v |-> 0]               \* a missing value (None / NaN)
Bool(b) == [k |-> "bool", v |-> IF b THEN 1 ELSE 0]   \* a native boolean
Str(n) == [k |-> "str", v |-> n]            \* a text cell (n names the text)
DateStr(h) == [k |-> "datestr", v |-> h]    \* a text cell that parses to hour h
Ts(h) == [k |-> "ts", v |-> h]              \* a pandas Timestamp
NaT == [k |-> "nat", v |-> 0]               \* pandas' missing Timestamp

HoursPerDay == 24

\* Timestamp.date(): the day of a timestamp.
DateOf(h) == h \div HoursPerDay
\* Series.dt.hour
HourOf(h) == h % HoursPerDay
\* Series.dt.dayofweek: 0 = Monday .. 6 = Sunday (1970-01-01 was a Thursday).
DayOfWeek(h) == (DateOf(h) + 3) % 7

\* date.isoformat(): the proleptic Gregorian <<year, month, day>> of a day
\* number (days since 1970-01-01).
isoformat(z0) ==
  LET z == z0 + 719468
      era == z \div 146097
      doe == z - era * 146097
      yoe == (doe - doe \div 1460 + doe \div 36524 - doe \div 146096) \div 365
      doy == doe - (365 * yoe + yoe \div 4 - yoe \div 100)
      mp == (5 * doy + 2) \div 153
      d == doy - (153 * mp + 2) \div 5 + 1
      m == IF mp < 10 THEN mp + 3 ELSE mp - 9
      y == yoe + era * 400 + (IF m <= 2 THEN 1 ELSE 0)
  IN <<y, m, d>>

IsLeap(y) == (y % 4 = 0 /\ y % 100 # 0) \/ y % 400 = 0
DaysInMonth(y, m) ==
  IF m = 2 THEN (IF IsLeap(y) THEN 29 ELSE 28)
  ELSE IF m \in {4, 6, 9, 11} THEN 30 ELSE 31

\* Whether pd.to_datetime accepts the text as a date: a <<year, month, day>>
\* of the calendar.
IsISODate(s) ==
  /\ Len(s) = 3
  /\ s[2] \in 1..12
  /\ s[3] \in 1..DaysInMonth(s[1], s[2])

\* The empty text "": pd.to_datetime gives NaT for it and does not raise.
EmptyText == <<"">>
\* The bounds start and end that make lines 129-134 of apply_date_range
\* raise: a text pd.to_datetime rejects, or None, which it hands back and the
\* comparison with the parsed column rejects.
bound_raises(s) == ~IsISODate(s) /\ s # EmptyText

\* The day number of an ISO date, counted from the calendar's month lengths.
RECURSIVE DaysBeforeYear(_)
DaysBeforeYear(y) ==
  IF y <= 1970 THEN 0
  ELSE DaysBeforeYear(y - 1) + (IF IsLeap(y - 1) THEN 366 ELSE 365)
RECURSIVE DaysBeforeMonth(_, _)
DaysBeforeMonth(y, m) ==
  IF m <= 1 THEN 0 ELSE DaysBeforeMonth(y, m - 1) + DaysInMonth(y, m - 1)
\* pd.to_datetime(iso, utc=True) of a date-only string: midnight of that day.
to_datetime_iso(s) ==
  (DaysBeforeYear(s[1]) + DaysBeforeMonth(s[1], s[2]) + s[3] - 1) * HoursPerDay

\* pd.to_datetime(series, errors='coerce') on one cell: date text and
\* timestamps give a Timestamp, everything else NaT.
to_datetime(c) == IF c.k \in {"datestr", "ts"} THEN Ts(c.v) ELSE NaT

\* An operation that raises yields Raise in place of its value; a value that
\* may be Raise is a non-empty sequence.
Raise == <<>>

\* str.isdigit() on one character, and the digit's value.
Digits == <<"0","1","2","3","4","5","6","7","8","9">>
IsDigit(c) == \E i \in DOMAIN Digits : Digits[i] = c
DigitVal(c) == (CHOOSE i \in DOMAIN Digits : Digits[i] = c) - 1

RECURSIVE DigitsVal(_, _)
DigitsVal(s, acc) ==
  IF s = <<>> THEN acc ELSE DigitsVal(Tail(s), acc * 10 + DigitVal(Head(s)))

\* int(text): blanks stripped, an optional sign, then one or more digits;
\* anything else raises ValueError.
int(s0) ==
  LET s == strip(s0)
      signed == s # <<>> /\ Head(s) \in {"-", "+"}
      body == IF signed THEN Tail(s) ELSE s
  IN IF body = <<>> \/ \E i \in DOMAIN body : ~IsDigit(body[i])
     THEN Raise
     ELSE <<IF signed /\ Head(s) = "-" THEN 0 - DigitsVal(body, 0)
            ELSE DigitsVal(body, 0)>>

\* str.endswith(c) for a one-character c.
endswith(s, c) == s # <<>> /\ s[Len(s)] = c

-----------------------------------------------------------------------------
(* analysis_minimal.py: compute_preset_window *)

DaysPerYear == 365
DaysPerWeek == 7
DefaultPresetDays == 30

\* The number of days of a preset token: <<days>>, or Raise when int() raises.
preset_days(p) ==
  LET count == int(SubSeq(p, 1, Len(p) - 1))
  IN IF endswith(p, "d") THEN count
     ELSE IF endswith(p, "y")
     THEN (IF count = Raise THEN Raise ELSE <<count[1] * DaysPerYear>>)
     ELSE IF endswith(p, "w")
     THEN (IF count = Raise THEN Raise ELSE <<count[1] * DaysPerWeek>>)
     ELSE <<DefaultPresetDays>>

\* The window that ends on the max date itself: the day added to make the end
\* exclusive is left out.
compute_preset_window_no_shift(p, maxd) ==
  LET days == preset_days(p)
  IN IF days = Raise THEN Raise
     ELSE LET end_date == maxd
              start_date == end_date - days[1] * HoursPerDay
          IN <<isoformat(DateOf(start_date)), isoformat(DateOf(end_date))>>

\* compute_preset_window: <<start_iso, end_iso>>, or Raise.
compute_preset_window(p, maxd) ==
  LET days == preset_days(p)
  IN IF days = Raise THEN Raise
     ELSE LET end_date == maxd + 1 * HoursPerDay
              start_date == end_date - days[1] * HoursPerDay
          IN <<isoformat(DateOf(start_date)), isoformat(DateOf(end_date))>>

-----------------------------------------------------------------------------
(* date_filter.py *)

\* find_date_column: the schema's column when given and present, else the
\* first candidate whose lower-cased form is a lower-cased header; the header
\* returned is the first one with that lower-cased form.
find_date_column(d, schema_datetime_col) ==
  IF is_None_or_empty(d) THEN None
  ELSE
    LET available_columns == d.columns
        df_columns_lower == Tuple([i \in DOMAIN available_columns |->
                                     lower(available_columns[i])])
        cands == CANDIDATE_DATE_COLUMNS
        hit == {i \in DOMAIN cands : lower(cands[i]) \in Range(df_columns_lower)}
    IN IF schema_datetime_col # None /\ schema_datetime_col \in Range(available_columns)
       THEN schema_datetime_col
       ELSE IF hit # {}
       THEN LET i == CHOOSE i \in hit : \A j \in hit : i <= j
            IN available_columns[IndexOf(df_columns_lower, lower(cands[i]))]
       ELSE None

\* The table with column col parsed to timestamps (df_work of apply_date_range).
ParseColumn(d, col) ==
  [d EXCEPT !.data = Tuple([i \in DOMAIN d.data |->
                        [d.data[i] EXCEPT ![col] = to_datetime(d.data[i][col])]])]

\* The rows of a table that satisfy a predicate, in order.
SelectRows(d, Keep(_)) == [d EXCEPT !.data = SelectSeq(d.data, Keep)]

\* The filter with an inclusive end: start <= date <= end.
apply_date_range_end_inclusive(d, date_col, start_iso, end_iso) ==
  IF is_None_or_empty(d) THEN d
  ELSE IF date_col = None \/ date_col \notin Range(d.columns) THEN d
  ELSE
    LET df_work == ParseColumn(d, date_col)
        valid_dates == {i \in DOMAIN df_work.data : df_work.data[i][date_col] # NaT}
    IN IF valid_dates = {} THEN d
       ELSE IF bound_raises(start_iso) \/ bound_raises(end_iso) THEN d
       ELSE IF start_iso = EmptyText \/ end_iso = EmptyText
       THEN [df_work EXCEPT !.data = <<>>]     \* a comparison with NaT is False
       ELSE LET start_dt == to_datetime_iso(start_iso)
                end_dt == to_datetime_iso(end_iso)
                mask(row) == /\ row[date_col] # NaT
                             /\ row[date_col].v >= start_dt
                             /\ row[date_col].v <= end_dt
            IN SelectRows(df_work, mask)

\* The filter that hands back its working copy where parsing start / end
\* raises: the rows of the input with the date column parsed.
apply_date_range_returns_work(d, date_col, start_iso, end_iso) ==
  IF is_None_or_empty(d) THEN d
  ELSE IF date_col = None \/ date_col \notin Range(d.columns) THEN d
  ELSE
    LET df_work == ParseColumn(d, date_col)
        valid_dates == {i \in DOMAIN df_work.data : df_work.data[i][date_col] # NaT}
    IN IF valid_dates = {} THEN d
       ELSE IF bound_raises(start_iso) \/ bound_raises(end_iso) THEN df_work
       ELSE IF start_iso = EmptyText \/ end_iso = EmptyText
       THEN [df_work EXCEPT !.data = <<>>]
       ELSE LET start_dt == to_datetime_iso(start_iso)
                end_dt == to_datetime_iso(end_iso)
                mask(row) == /\ row[date_col] # NaT
                             /\ row[date_col].v >= start_dt
                             /\ row[date_col].v < end_dt
            IN SelectRows(df_work, mask)

\* apply_date_range: the rows start <= date < end of the table with its date
\* column parsed; the table itself when it is empty, the column is absent, no
\* date parses, or parsing start / end raises; no row when start or end is "".
apply_date_range(d, date_col, start_iso, end_iso) ==
  IF is_None_or_empty(d) THEN d
  ELSE IF date_col = None \/ date_col \notin Range(d.columns) THEN d
  ELSE
    LET df_work == ParseColumn(d, date_col)
        valid_dates == {i \in DOMAIN df_work.data : df_work.data[i][date_col] # NaT}
    IN IF valid_dates = {} THEN d
       ELSE IF bound_raises(start_iso) \/ bound_raises(end_iso) THEN d
       ELSE IF start_iso = EmptyText \/ end_iso = EmptyText
       THEN [df_work EXCEPT !.data = <<>>]     \* a comparison with NaT is False
       ELSE LET start_dt == to_datetime_iso(start_iso)
                end_dt == to_datetime_iso(end_iso)
                mask(row) == /\ row[date_col] # NaT
                             /\ row[date_col].v >= start_dt
                             /\ row[date_col].v < end_dt
            IN SelectRows(df_work, mask)

-----------------------------------------------------------------------------
(* analysis_minimal.py: get_data_coverage *)

ColumnsSampleSize == 30

\* list[:n]
Take(s, n) == SubSeq(s, 1, IF Len(s) < n THEN Len(s) ELSE n)

SetMin(S) == CHOOSE x \in S : \A y \in S : x <= y
SetMax(S) == CHOOSE x \in S : \A y \in S : x >= y

get_data_coverage(d, date_col0) ==
  IF is_None_or_empty(d)
  THEN [minDate |-> None, maxDate |-> None, rowCount |-> 0, dateCol |-> None,
        columnsSample |-> <<>>]
  ELSE
    LET columns_sample == Take(d.columns, ColumnsSampleSize)
        detected == Let(find_date_column(d, None),
                        LAMBDA c : IF c # None THEN c ELSE find_datetime_col(d))
        coverage(date_col) ==
          IF date_col = None \/ date_col \notin Range(d.columns)
          THEN [minDate |-> None, maxDate |-> None, rowCount |-> Len(d.data),
                dateCol |-> None, columnsSample |-> columns_sample]
          ELSE
            Let({to_datetime(d.data[i][date_col]).v :
                   i \in {j \in DOMAIN d.data :
                            to_datetime(d.data[j][date_col]) # NaT}},
                LAMBDA valid_dates :
                  IF valid_dates = {}
                  THEN [minDate |-> None, maxDate |-> None,
                        rowCount |-> Len(d.data),
                        dateCol |-> date_col, columnsSample |-> columns_sample]
                  ELSE [minDate |-> isoformat(DateOf(SetMin(valid_dates))),
                        maxDate |-> isoformat(DateOf(SetMax(valid_dates))),
                        rowCount |-> Len(d.data),
                        dateCol |-> date_col, columnsSample |-> columns_sample])
    IN Let(IF date_col0 # None THEN date_col0 ELSE detected, coverage)

-----------------------------------------------------------------------------
(* pandas helpers of the builders *)

\* The sum of f[i] over the indices i of I.
RECURSIVE SumF(_, _)
SumF(f, I) ==
  IF I = {} THEN 0
  ELSE LET i == CHOOSE i \in I : TRUE IN f[i] + SumF(f, I \ {i})

\* The value a cell adds to Series.sum(): missing values are skipped, a
\* boolean counts 1 or 0.  (Amount-like columns of the tables of this model
\* hold numbers, booleans or missing values.)
SumValue(c) == IF c.k \in {"num", "bool"} THEN c.v ELSE 0

\* df.loc[I, col].sum()
SumCol(d, col, I) == SumF([i \in DOMAIN d.data |-> SumValue(d.data[i][col])], I)

\* Series.notna()
notna(c) == c.k \notin {"nan", "nat"}

\* The count of the values that are not missing, equal ones counted again.
nunique_counts_repeats(d, col, I) ==
  Cardinality({i \in I : d.data[i][col].k \notin {"nan", "nat"}})

\* Series.nunique() over the rows I: the distinct values, missing ones apart.
nunique(d, col, I) == Cardinality({d.data[i][col] : i \in {j \in I : notna(d.data[j][col])}})

\* Series.count() over the rows I: the values that are not missing.
count(d, col, I) == Cardinality({i \in I : notna(d.data[i][col])})

\* df[col].dtype == 'bool': every cell is a native boolean.
dtype_is_bool(d, col) == \A i \in DOMAIN d.data : d.data[i][col].k = "bool"

\* The rows the void (or removal) flag marks: the column itself when it is
\* boolean, else the cells that are not 0 and not missing.
flag_mask(d, col) ==
  IF dtype_is_bool(d, col)
  THEN {i \in DOMAIN d.data : d.data[i][col].v = 1}
  ELSE {i \in DOMAIN d.data :
          /\ notna(d.data[i][col])
          /\ ~(d.data[i][col].k \in {"num", "bool"} /\ d.data[i][col].v = 0)}

\* a / b as the exact quotient <<numerator, denominator>>; <<0, 0>> is NaN.
Quot(a, b) == <<a, b>>
Zero == <<0, 1>>
\* float(x) of a number: the quotient x / 1.
Float(x) == <<x, 1>>
IsNaN(q) == q[1] = 0 /\ q[2] = 0
\* The value left as it is: the fillna(0) after the merge forgotten.
keep_nan(q) == q

\* fillna(0) on one value.
fillna0(q) == IF IsNaN(q) THEN Zero ELSE q

-----------------------------------------------------------------------------
(* analysis_minimal.py: _compute_kpis *)

\* (amount / revenue) * 100 if revenue > 0 else 0.0
RatePct(amount, revenue) ==
  IF revenue > 0 THEN Quot(amount * 100, revenue) ELSE Zero

\* Lines 348-368: Revenue, Transactions (distinct order ids, else the row
\* count), its label and Avg Ticket.
base_kpis(d, schema, revenue) ==
  LET order_id_col == schema.order_id
      has_order_id == order_id_col # None /\ order_id_col \in Range(d.columns)
  IN Let(IF has_order_id THEN nunique(d, order_id_col, DOMAIN d.data)
         ELSE Len(d.data),
         LAMBDA transactions :
           ("Revenue" :> Float(revenue))
           @@ ("Transactions" :> Float(transactions))
           @@ ("transactionsLabel" :>
                 IF has_order_id THEN "Transactions" ELSE "Line Items")
           @@ ("Avg Ticket" :>
                 IF transactions > 0 THEN Quot(revenue, transactions) ELSE Zero))

\* The void entries written whether or not the void_flag role resolved.
void_kpis_zero_filled(d, schema, revenue) ==
  IF schema.void_flag # None /\ schema.void_flag \in Range(d.columns)
  THEN Let(SumCol(d, schema.amount, flag_mask(d, schema.void_flag)),
           LAMBDA void_amount :
             ("Void $" :> Float(void_amount))
             @@ ("Void Rate %" :> RatePct(void_amount, revenue)))
  ELSE ("Void $" :> Zero) @@ ("Void Rate %" :> Zero)

\* Lines 370-385: the void entries, written only when the void_flag role
\* resolved to a header of the table.
void_kpis(d, schema, revenue) ==
  IF schema.void_flag # None /\ schema.void_flag \in Range(d.columns)
  THEN Let(SumCol(d, schema.amount, flag_mask(d, schema.void_flag)),
           LAMBDA void_amount :
             ("Void $" :> Float(void_amount))
             @@ ("Void Rate %" :> RatePct(void_amount, revenue)))
  ELSE <<>>

\* Lines 387-396: the discount entries.
discount_kpis(d, schema, revenue) ==
  IF schema.discount_amount # None /\ schema.discount_amount \in Range(d.columns)
  THEN Let(SumCol(d, schema.discount_amount, DOMAIN d.data),
           LAMBDA discount_amount :
             ("Discount $" :> Float(discount_amount))
             @@ ("Discount Rate %" :> RatePct(discount_amount, revenue)))
  ELSE <<>>

\* Lines 398-413: the removal entries; a boolean column marks rows whose
\* amount is summed, any other column is summed itself.
removal_kpis(d, schema, revenue) ==
  LET removal_col == schema.removal_flag_or_amount
  IN IF removal_col # None /\ removal_col \in Range(d.columns)
     THEN Let(IF dtype_is_bool(d, removal_col)
              THEN SumCol(d, schema.amount, flag_mask(d, removal_col))
              ELSE SumCol(d, removal_col, DOMAIN d.data),
              LAMBDA removal_amount :
                ("Removal $" :> Float(removal_amount))
                @@ ("Removal Rate %" :> RatePct(removal_amount, revenue)))
     ELSE <<>>

\* An exception that leaves the function: nothing is returned.
Raised == ("exception" :> TRUE)

\* Series.sum() adds the cells with +, missing ones skipped.  A text cell
\* makes df.loc[I, col].sum(), or the float() of what it gives, raise: a
\* number and a text do not add (TypeError), and texts alone concatenate to
\* a text that float() rejects (ValueError).
sum_raises(d, col, I) ==
  \E i \in I : d.data[i][col].k \notin {"num", "bool", "nan"}

\* The sums of _compute_kpis that raise: the amount (line 349), the discount
\* column (line 392), the removal column when it is not boolean (line 407).
kpis_raise(d, schema) ==
  \/ sum_raises(d, schema.amount, DOMAIN d.data)
  \/ /\ schema.discount_amount # None
     /\ schema.discount_amount \in Range(d.columns)
     /\ sum_raises(d, schema.discount_amount, DOMAIN d.data)
  \/ /\ schema.removal_flag_or_amount # None
     /\ schema.removal_flag_or_amount \in Range(d.columns)
     /\ ~dtype_is_bool(d, schema.removal_flag_or_amount)
     /\ sum_raises(d, schema.removal_flag_or_amount, DOMAIN d.data)

\* _compute_kpis: the mapping, or Raised.  Nothing in it catches an exception.
_compute_kpis(d, schema) ==
  IF schema.amount = None THEN <<>>
  ELSE IF kpis_raise(d, schema) THEN Raised
  ELSE Let(SumCol(d, schema.amount, DOMAIN d.data), LAMBDA revenue :
         base_kpis(d, schema, revenue) @@ void_kpis(d, schema, revenue)
         @@ discount_kpis(d, schema, revenue) @@ removal_kpis(d, schema, revenue))

-----------------------------------------------------------------------------
(* analysis_minimal.py: the time-bucket chart builders *)

ORDER_DATE == <<"o","r","d","e","r"," ","d","a","t","e">>   \* "order date"
HoursInDay == 24
DAY_NAMES == <<"Mon", "Tue", "Wed", "Thu", "Fri", "Sat", "Sun">>
day_order == <<"Monday", "Tuesday", "Wednesday", "Thursday", "Friday",
               "Saturday", "Sunday">>

\* The date column any resolver would give: the first date alias among the
\* headers.
order_date_column_any_alias(d) == find_date_column(d, None)

\* The first header whose lower-cased name is "order date", or None.
order_date_column(d) ==
  LET hit == {i \in DOMAIN d.columns : lower(d.columns[i]) = ORDER_DATE}
  IN IF hit = {} THEN None
     ELSE d.columns[CHOOSE i \in hit : \A j \in hit : i <= j]

\* pd.to_numeric(errors='coerce').fillna(0) on one cell.
to_numeric0(c) == IF c.k \in {"num", "bool"} THEN c.v ELSE 0

\* Every row of the table: the dropna(subset=[order_date_col]) forgotten.
valid_order_rows_keeps_nat(d, order_date_col) == DOMAIN d.data

\* The rows of the table whose Order Date parses (df_copy after dropna).
valid_order_rows(d, order_date_col) ==
  {i \in DOMAIN d.data : to_datetime(d.data[i][order_date_col]) # NaT}

\* Whether the builder leaves its guards: the amount role and the Order Date
\* header are there.
chart_columns_found(d, schema) ==
  schema.amount # None /\ order_date_column(d) # None

\* Whether the hour and day aggregations raise: with one header in both the
\* amount and the order-id role, agg_dict holds a single entry, the grouped
\* frame two columns, and naming three columns raises ValueError.
agg_raises(d, schema) ==
  /\ schema.order_id # None
  /\ schema.order_id \in Range(d.columns)
  /\ schema.order_id = schema.amount

\* The sum of the coerced amounts and the number of distinct order ids of the
\* rows I of the table.
bucket_revenue(d, schema, I) ==
  SumF([i \in DOMAIN d.data |-> to_numeric0(d.data[i][schema.amount])], I)
bucket_orders(d, schema, I) ==
  IF schema.order_id # None /\ schema.order_id \in Range(d.columns)
  THEN nunique(d, schema.order_id, I) ELSE 0

\* scaffold.merge(grouped, how='left').fillna(0): one row per scaffold key, in
\* the scaffold's order; the grouped row where the key was grouped, else the
\* key with zeros.
merge_left_fill0(scaffold, grouped_keys, grouped_row(_), zero_row(_)) ==
  Tuple([n \in DOMAIN scaffold |->
           IF scaffold[n] \in grouped_keys THEN grouped_row(scaffold[n])
           ELSE zero_row(scaffold[n])])

\* DataFrame.sort_values, ascending in the integer key of each row; rows that
\* tie keep their order (the sort of the short frames of this model is an
\* insertion sort, as is SortSeq).
sort_values(s, key(_)) == SortSeq(s, LAMBDA a, b : key(a) < key(b))

\* range(24)
all_hours == Tuple([n \in 1..HoursInDay |-> n - 1])

_compute_hourly_revenue(d, schema) ==
  IF ~chart_columns_found(d, schema) THEN <<>>
  ELSE
    LET order_date_col == order_date_column(d)
        valid == valid_order_rows(d, order_date_col)
        hour(i) == HourOf(to_datetime(d.data[i][order_date_col]).v)
        at(h) == {i \in valid : hour(i) = h}
        hourly(h) == ("Hour" :> h)
                     @@ ("Net Price" :> Float(bucket_revenue(d, schema, at(h))))
                     @@ ("Order Id" :> bucket_orders(d, schema, at(h)))
        blank(h) == ("Hour" :> h) @@ ("Net Price" :> Float(0)) @@ ("Order Id" :> 0)
    IN IF valid = {} THEN <<>>
       ELSE IF agg_raises(d, schema) THEN <<>>
       ELSE sort_values(
              merge_left_fill0(all_hours, {hour(i) : i \in valid}, hourly, blank),
              LAMBDA r : r["Hour"])

_compute_day_of_week(d, schema) ==
  IF ~chart_columns_found(d, schema) THEN <<>>
  ELSE
    LET order_date_col == order_date_column(d)
        valid == valid_order_rows(d, order_date_col)
        \* Series.dt.day_name()
        day_name(i) == day_order[DayOfWeek(to_datetime(d.data[i][order_date_col]).v) + 1]
        at(w) == {i \in valid : day_name(i) = w}
        daily(w) == ("Day" :> w)
                    @@ ("Net Price" :> Float(bucket_revenue(d, schema, at(w))))
                    @@ ("Order Id" :> bucket_orders(d, schema, at(w)))
        \* The categorical groupby yields all seven days, so every key is grouped.
        pos(w) == IndexOf(day_order, w)
    IN IF valid = {} THEN <<>>
       ELSE IF agg_raises(d, schema) THEN <<>>
       ELSE sort_values(
              merge_left_fill0(day_order, Range(day_order), daily, daily),
              LAMBDA r : pos(r["Day"]))

\* list(product(range(24), DAY_NAMES)): the hours in order, each with the days
\* in order.
all_combinations ==
  [n \in 1..(HoursInDay * Len(DAY_NAMES)) |->
     <<(n - 1) \div Len(DAY_NAMES), DAY_NAMES[((n - 1) % Len(DAY_NAMES)) + 1]>>]

_compute_revenue_heatmap(d, schema) ==
  IF ~chart_columns_found(d, schema) THEN <<>>
  ELSE
    LET order_date_col == order_date_column(d)
        valid == valid_order_rows(d, order_date_col)
        hour(i) == HourOf(to_datetime(d.data[i][order_date_col]).v)
        day_num(i) == DayOfWeek(to_datetime(d.data[i][order_date_col]).v)
        day(i) == IF 0 <= day_num(i) /\ day_num(i) <= 6
                  THEN DAY_NAMES[day_num(i) + 1] ELSE "Mon"
        at(c) == {i \in valid : hour(i) = c[1] /\ day(i) = c[2]}
        cell(c) == ("hour" :> c[1]) @@ ("day" :> c[2])
                   @@ ("revenue" :> Float(bucket_revenue(d, schema, at(c))))
        blank(c) == ("hour" :> c[1]) @@ ("day" :> c[2]) @@ ("revenue" :> Float(0))
        day_sort(w) == IndexOf(DAY_NAMES, w)
    IN IF valid = {} THEN <<>>
       ELSE sort_values(
              merge_left_fill0(all_combinations,
                               {<<hour(i), day(i)>> : i \in valid}, cell, blank),
              LAMBDA r : r["hour"] * Len(DAY_NAMES) + day_sort(r["day"]))

-----------------------------------------------------------------------------
(* analysis_minimal.py: the table builders *)

\* A message: its literal text, followed by the values formatted into it.
\* {"columns": ["message"], "data": [{"message": ...}]}
message_table(msg) == [columns |-> <<"message">>, data |-> <<[message |-> msg]>>]

\* The text cell "All" (the name of the single group when no category
\* column is there).
All == Str(0)

\* DataFrame.groupby(col): the keys of the groups in ascending order (rows
\* with a missing key belong to no group), and the rows of a group.
group_keys(d, col, I) ==
  LET keys == {d.data[i][col] : i \in {j \in I : notna(d.data[j][col])}}
      RECURSIVE Asc(_)
      Asc(S) == IF S = {} THEN <<>>
                ELSE LET m == CHOOSE m \in S : \A o \in S : m.v <= o.v
                     IN <<m>> \o Asc(S \ {m})
  IN Asc(keys)
group_rows(d, col, I, key) == {i \in I : d.data[i][col] = key}

\* The concatenation of a sequence of sequences.
RECURSIVE Flatten(_)
Flatten(ss) == IF ss = <<>> THEN <<>> ELSE Head(ss) \o Flatten(Tail(ss))

ReasonsPerCategory == 10
WasteRowLimit == 100
preferred_order ==
  <<"Category", "Reason", "Revenue", "Void_Amount", "Void_Rate_Pct", "Count">>

\* The first 10 reasons of a category as grouped, in the order of the keys.
top_reasons_unsorted(void_reasons) == Take(void_reasons, ReasonsPerCategory)

\* void_reasons.sort_values('Void_Amount', ascending=False).head(10)
top_reasons(void_reasons) ==
  Take(sort_values(void_reasons, LAMBDA r : 0 - r["Void_Amount"][1]),
       ReasonsPerCategory)

_compute_waste_efficiency(d, schema) ==
  LET amount_col == schema.amount
      void_flag_col == schema.void_flag
      category_col == schema.category
      reason_col == schema.reason
      all_rows == DOMAIN d.data
      void_mask == flag_mask(d, void_flag_col)
      by_category == category_col # None /\ category_col \in Range(d.columns)
      \* groups: <<name, rows>> per category, or the single group (None, df)
      groups == IF by_category
                THEN LET keys == group_keys(d, category_col, all_rows)
                     IN [n \in DOMAIN keys |->
                           [name |-> keys[n],
                            rows |-> group_rows(d, category_col, all_rows, keys[n])]]
                ELSE <<[name |-> All, rows |-> all_rows]>>
      with_reasons == reason_col # None /\ reason_col \in Range(d.columns)
      category_row(g) ==
        LET revenue == SumCol(d, amount_col, g.rows)
            void_amount == SumCol(d, amount_col, g.rows \cap void_mask)
        IN ("Category" :> g.name) @@ ("Revenue" :> Float(revenue))
           @@ ("Void_Amount" :> Float(void_amount))
           @@ ("Void_Rate_Pct" :> RatePct(void_amount, revenue))
      reason_rows(g) ==
        LET voided == g.rows \cap void_mask
            reasons == group_keys(d, reason_col, voided)
            void_reasons ==
              [n \in DOMAIN reasons |->
                 LET rr == group_rows(d, reason_col, voided, reasons[n])
                 IN ("Category" :> g.name) @@ ("Reason" :> reasons[n])
                    @@ ("Void_Amount" :> Float(SumCol(d, amount_col, rr)))
                    @@ ("Count" :> count(d, amount_col, rr))]
        IN top_reasons(Tuple(void_reasons))
      rows == Flatten([n \in DOMAIN groups |->
                         IF with_reasons THEN reason_rows(groups[n])
                         ELSE <<category_row(groups[n])>>])
      keys == UNION {DOMAIN rows[n] : n \in DOMAIN rows}
      columns == IF rows # <<>>
                 THEN SelectSeq(preferred_order, LAMBDA c : c \in keys)
                 ELSE <<"Category", "Revenue", "Void_Amount", "Void_Rate_Pct">>
  IN IF amount_col = None THEN message_table(<<"Amount column not found">>)
     ELSE IF void_flag_col = None \/ void_flag_col \notin Range(d.columns)
     THEN message_table(<<"Void flag column not found">>)
     ELSE [columns |-> columns, data |-> Take(rows, WasteRowLimit)]

EmployeeRowLimit == 50
MessageColumns == 10

\* The first 50 rows of the grouped frame as it is, in the order of the keys.
top_employees_unsorted(grouped) == Take(grouped, EmployeeRowLimit)

\* grouped.sort_values('Revenue', ascending=False).head(50) (line 799).
top_employees(grouped) ==
  Take(sort_values(grouped, LAMBDA r : 0 - r["Revenue"][1]), EmployeeRowLimit)

_compute_employee_performance(d, schema) ==
  LET amount_col == schema.amount
      employee_col == schema.employee
      order_id_col == schema.order_id
      void_flag_col == schema.void_flag
      all_rows == DOMAIN d.data
      with_void == void_flag_col # None /\ void_flag_col \in Range(d.columns)
      void_mask == flag_mask(d, void_flag_col)
      servers == group_keys(d, employee_col, all_rows)
      grouped ==
        [n \in DOMAIN servers |->
           LET rr == group_rows(d, employee_col, all_rows, servers[n])
               revenue == SumCol(d, amount_col, rr)
               transactions ==
                 IF order_id_col # None /\ order_id_col \in Range(d.columns)
                 THEN nunique(d, order_id_col, rr) ELSE Cardinality(rr)
               \* a server with no void row gets NaN from the left merge and 0
               \* from fillna(0); the sum over no rows is 0 as well
               void_amount == SumCol(d, amount_col, rr \cap void_mask)
           IN ("Server" :> servers[n]) @@ ("Revenue" :> Float(revenue))
              @@ ("Transactions" :> transactions)
              @@ (IF with_void
                  THEN ("Void_Amount" :> Float(void_amount))
                       @@ ("Void_Rate_Pct" :> fillna0(Quot(void_amount * 100, revenue)))
                  ELSE <<>>)]
      sorted == top_employees(Tuple(grouped))
      columns == <<"Server", "Revenue", "Transactions">>
                 \o (IF with_void THEN <<"Void_Amount", "Void_Rate_Pct">> ELSE <<>>)
  IN IF amount_col = None THEN message_table(<<"Amount column not found">>)
     ELSE IF employee_col = None \/ employee_col \notin Range(d.columns)
     THEN message_table(<<"Employee column not found">>
                        \o Take(Take(d.columns, 20), MessageColumns))
     ELSE [columns |-> columns, data |-> sorted]

MenuRowLimit == 100

\* Series.std() (ddof = 1) of the values f[i], i in I, as the exact quotient
\* of its square: (n * sum(x^2) - sum(x)^2) / (n * (n - 1)), which is the NaN
\* 0 / 0 for a single value.
std(f, I) ==
  LET n == Cardinality(I)
      s == SumF(f, I)
      s2 == SumF([i \in DOMAIN f |-> f[i] * f[i]], I)
  IN Quot(n * s2 - s * s, n * (n - 1))

_compute_menu_volatility(d, schema) ==
  LET amount_col == schema.amount
      item_col == schema.item
      category_col == schema.category
      datetime_col == schema.datetime
      all_rows == DOMAIN d.data
      with_category == category_col # None /\ category_col \in Range(d.columns)
      with_datetime == datetime_col # None /\ datetime_col \in Range(d.columns)
      items == group_keys(d, item_col, all_rows)
      \* df_copy after dropna(subset=['_date', item_col, amount_col])
      dated == {i \in all_rows :
                  /\ to_datetime(d.data[i][datetime_col]) # NaT
                  /\ notna(d.data[i][item_col])
                  /\ notna(d.data[i][amount_col])}
      date(i) == DateOf(to_datetime(d.data[i][datetime_col]).v)
      \* daily_revenue: one summed value per item and calendar day
      days_of(item) == {date(i) : i \in {j \in dated : d.data[j][item_col] = item}}
      daily_revenue(item) ==
        [day \in days_of(item) |->
           SumCol(d, amount_col,
                  {i \in dated : d.data[i][item_col] = item /\ date(i) = day})]
      \* the left merge gives an item without dated rows NaN; fillna(0) follows
      volatility(item) ==
        IF ~with_datetime \/ dated = {} THEN Zero
        ELSE fillna0(IF days_of(item) = {} THEN Quot(0, 0)
                     ELSE std(daily_revenue(item), days_of(item)))
      \* groupby(item)[category].first(): the first category that is not missing
      first_category(rr) ==
        LET have == {i \in rr : notna(d.data[i][category_col])}
        IN IF have = {} THEN NaN
           ELSE d.data[CHOOSE i \in have : \A j \in have : i <= j][category_col]
      \* fillna(0) of the merged frame also turns a missing category into 0
      filled(c) == IF with_datetime /\ dated # {} /\ ~notna(c) THEN Num(0) ELSE c
      grouped ==
        [n \in DOMAIN items |->
           LET rr == group_rows(d, item_col, all_rows, items[n])
           IN ("Item" :> items[n])
              @@ ("Revenue" :> Float(SumCol(d, amount_col, rr)))
              @@ ("Count" :> count(d, amount_col, rr))
              @@ (IF with_category
                  THEN ("Category" :> filled(first_category(rr))) ELSE <<>>)
              @@ ("Volatility" :> volatility(items[n]))]
      sorted == Take(sort_values(grouped,
                       LAMBDA r : 0 - r["Revenue"][1]),
                     MenuRowLimit)
      columns == <<"Item", "Revenue", "Count">>
                 \o (IF with_category THEN <<"Category">> ELSE <<>>)
                 \o <<"Volatility">>
  IN IF amount_col = None THEN message_table(<<"Amount column not found">>)
     ELSE IF item_col = None \/ item_col \notin Range(d.columns)
     THEN message_table(<<"Item column not found">>)
     ELSE [columns |-> columns, data |-> sorted]

-----------------------------------------------------------------------------
(* analysis_minimal.py: run_full_analysis *)

NoDataTable == message_table(<<"No data available">>)

\* The empty response whose tables have no rows: the placeholder row left out.
_empty_response_no_rows(cid) ==
  [clientId |-> cid,
   kpis |-> <<>>,
   charts |-> [hour_of_day |-> <<>>, day_of_week |-> <<>>,
               revenue_heatmap |-> <<>>, hourly_revenue |-> <<>>],
   tables |-> [waste_efficiency |-> [columns |-> <<"message">>, data |-> <<>>],
               employee_performance |-> [columns |-> <<"message">>, data |-> <<>>],
               menu_volatility |-> [columns |-> <<"message">>, data |-> <<>>]],
   dataCoverage |-> [minDate |-> None, maxDate |-> None, rowCount |-> 0,
                     dateCol |-> None, columnsSample |-> <<>>]]

_empty_response(cid) ==
  [clientId |-> cid,
   kpis |-> <<>>,
   charts |-> [hour_of_day |-> <<>>, day_of_week |-> <<>>,
               revenue_heatmap |-> <<>>, hourly_revenue |-> <<>>],
   tables |-> [waste_efficiency |-> NoDataTable,
               employee_performance |-> NoDataTable,
               menu_volatility |-> NoDataTable],
   dataCoverage |-> [minDate |-> None, maxDate |-> None, rowCount |-> 0,
                     dateCol |-> None, columnsSample |-> <<>>]]

\* The date column of the run: the schema's, else detected.
run_date_col(d, schema) ==
  Let(find_date_column(d, schema.datetime),
      LAMBDA c : IF c # None THEN c ELSE find_datetime_col(d))

\* The bounds of the run without the guard of lines 221-229: explicit bounds
\* that come with a preset are kept, and win when both are there.
resolve_date_range_explicit_wins(date_range, date_col, data_coverage) ==
  LET preset_ == date_range.preset
      date_start == date_range.start
      date_end == date_range.end
  IN IF /\ preset_ # None
        /\ ~(date_start # None /\ date_end # None)
        /\ date_col # None
        /\ data_coverage.maxDate # None
     THEN Let(compute_preset_window(preset_, to_datetime_iso(data_coverage.maxDate)),
              LAMBDA computed : IF computed # Raise THEN computed
                                ELSE <<date_start, date_end>>)
     ELSE <<date_start, date_end>>

\* The bounds of the run with the explicit bounds as a fallback: dropped when
\* they come with a preset, and taken again when the preset gives no window.
resolve_date_range_falls_back(date_range, date_col, data_coverage) ==
  LET preset_ == date_range.preset
      both == preset_ # None /\ (date_range.start # None \/ date_range.end # None)
      date_start == IF both THEN None ELSE date_range.start
      date_end == IF both THEN None ELSE date_range.end
  IN IF /\ preset_ # None
        /\ ~(date_start # None /\ date_end # None)
        /\ date_col # None
        /\ data_coverage.maxDate # None
     THEN Let(compute_preset_window(preset_, to_datetime_iso(data_coverage.maxDate)),
              LAMBDA computed : IF computed # Raise THEN computed
                                ELSE <<date_range.start, date_range.end>>)
     ELSE <<date_range.start, date_range.end>>

\* Lines 214-240: the <<date_start, date_end>> of the run.  With a preset and
\* any explicit bound, both bounds are dropped; a preset is then resolved
\* against the coverage's max date, unless computing it raises.
resolve_date_range(date_range, date_col, data_coverage) ==
  LET preset_ == date_range.preset
      both == preset_ # None /\ (date_range.start # None \/ date_range.end # None)
      date_start == IF both THEN None ELSE date_range.start
      date_end == IF both THEN None ELSE date_range.end
  IN IF /\ preset_ # None
        /\ ~(date_start # None /\ date_end # None)
        /\ date_col # None
        /\ data_coverage.maxDate # None
     THEN Let(compute_preset_window(preset_, to_datetime_iso(data_coverage.maxDate)),
              LAMBDA computed : IF computed # Raise THEN computed
                                ELSE <<date_start, date_end>>)
     ELSE <<date_start, date_end>>

\* Lines 257-310 once the schema, the date column, the coverage and the
\* filtered table are known.  The call of _compute_kpis (line 264) is not in
\* a try block: when it raises, run_full_analysis raises.  The table builders
\* are not in one either; they sum the amount column that _compute_kpis has
\* summed before them.
analysis_result(filtered, cid, schema, data_coverage) ==
  IF IsEmpty(filtered) THEN _empty_response(cid)
  ELSE IF _compute_kpis(filtered, schema) = Raised THEN Raised
  ELSE Let(_compute_revenue_heatmap(filtered, schema),
           LAMBDA revenue_heatmap_data :
             [clientId |-> cid,
              kpis |-> _compute_kpis(filtered, schema),
              charts |-> [hour_of_day |-> _compute_hourly_revenue(filtered, schema),
                          day_of_week |-> _compute_day_of_week(filtered, schema),
                          revenue_heatmap |-> revenue_heatmap_data,
                          hourly_revenue |-> revenue_heatmap_data],
              tables |-> [waste_efficiency |->
                            _compute_waste_efficiency(filtered, schema),
                          employee_performance |->
                            _compute_employee_performance(filtered, schema),
                          menu_volatility |->
                            _compute_menu_volatility(filtered, schema)],
              dataCoverage |-> [data_coverage EXCEPT !.rowCount = Len(filtered.data)]])

\* run_full_analysis: the returned structure, with the arguments it handed to
\* apply_date_range (None when it did not filter) and the table it aggregated.
run_full_analysis(d, cid, prm) ==
  Let(detect_schema(d), LAMBDA schema0 :
  Let(run_date_col(d, schema0), LAMBDA date_col :
  Let(IF date_col # None THEN [schema0 EXCEPT !.datetime = date_col] ELSE schema0,
      LAMBDA schema :
  Let(get_data_coverage(d, date_col), LAMBDA data_coverage :
  Let(resolve_date_range(prm.dateRange, date_col, data_coverage), LAMBDA range :
  Let(range[1] # None /\ range[2] # None /\ date_col # None, LAMBDA filters :
  Let(IF filters THEN apply_date_range(d, date_col, range[1], range[2]) ELSE d,
      LAMBDA filtered :
    [result |-> analysis_result(filtered, cid, schema, data_coverage),
     window |-> IF filters THEN <<date_col, range[1], range[2]>> ELSE None,
     filtered |-> filtered,
     schema |-> schema])))))))

-----------------------------------------------------------------------------
(* htx_tap_analytics.py: analyze_waste_efficiency *)

\* The tables of htx_tap_analytics hold amounts in whole cents, so that the
\* 0.01 of the waste rate is one cent.

\* find_column_fuzzy candidates of analyze_waste_efficiency
\* (src/htx_tap_analytics.py:175, 180, 190-191).
waste_revenue_candidates ==
  <<<<"N", "e", "t", " ", "P", "r", "i", "c", "e">>,
    <<"n", "e", "t", "_", "p", "r", "i", "c", "e">>,
    <<"T", "o", "t", "a", "l", " ", "P", "r", "i", "c", "e">>,
    <<"t", "o", "t", "a", "l", "_", "p", "r", "i", "c", "e">>>>
waste_server_candidates == <<<<"S", "e", "r", "v", "e", "r">>,
    <<"s", "e", "r", "v", "e", "r">>>>
waste_price_candidates == <<<<"T", "o", "t", "a", "l", " ", "P", "r", "i", "c", "e">>,
    <<"t", "o", "t", "a", "l", "_", "p", "r", "i", "c", "e">>>>

\* q < k for a quotient q the way float comparison decides it: x / 0 is an
\* infinity of the sign of x, and every comparison with NaN (0 / 0) is false.
QLess(q, k) ==
  IF q[2] > 0 THEN q[1] < k * q[2]
  ELSE IF q[2] < 0 THEN q[1] > k * q[2]
  ELSE q[1] < 0

\* The classification with inclusive upper bounds: rate <= 10 is Good.
classify_waste_inclusive(rate) ==
  IF QLess(rate, 10) \/ rate[1] = 10 * rate[2] THEN "Good"
  ELSE IF QLess(rate, 15) \/ rate[1] = 15 * rate[2] THEN "Monitor"
  ELSE IF QLess(rate, 20) \/ rate[1] = 20 * rate[2] THEN "Caution"
  ELSE "Critical"

\* classify_waste (lines 223-231)
classify_waste(rate) ==
  IF QLess(rate, 10) THEN "Good"
  ELSE IF QLess(rate, 15) THEN "Monitor"
  ELSE IF QLess(rate, 20) THEN "Caution"
  ELSE "Critical"

\* t.groupby(server_col)[price_col].sum().reset_index(): one row per server
\* of the table, in the order of the keys.
server_sums(t, server_col, price_col) ==
  Let(group_keys(t, server_col, DOMAIN t.data), LAMBDA keys :
    Tuple([i \in DOMAIN keys |->
             [Server |-> keys[i],
              Value |-> SumCol(t, price_col,
                               group_rows(t, server_col, DOMAIN t.data, keys[i]))]]))

\* The per-server sums of an auxiliary table (voids, removed): the empty frame
\* when the table is empty or lacks the price or the server column.
server_aux(t) ==
  IF IsEmpty(t) THEN <<>>
  ELSE Let(find_column_fuzzy(t, waste_price_candidates), LAMBDA price_col :
       Let(find_column_fuzzy(t, waste_server_candidates), LAMBDA server_col :
         IF price_col # None /\ server_col # None
         THEN server_sums(t, server_col, price_col)
         ELSE <<>>))

\* left.merge(right, on='Server', how='left'): the value the right frame has
\* for a server of the left frame, NaN when it has none.
merged_value(right, server) ==
  IF \E i \in DOMAIN right : right[i].Server = server
  THEN Float((CHOOSE r \in Range(right) : r.Server = server).Value)
  ELSE Quot(0, 0)

\* One row of the result (lines 215-233).  fillna(0) makes the merged values
\* numbers; Waste_Rate_Pct = Total_Waste / (Revenue + 0.01) * 100 and
\* Revenue_per_Waste_Dollar = Revenue / (Total_Waste + 1), in cents
\* 100 * waste / (revenue + 1) and revenue / (waste + 100).
waste_row(server, revenue, void, removed) ==
  LET void_value == fillna0(void)[1]
      removed_value == fillna0(removed)[1]
      total_waste == void_value + removed_value
      rate == Quot(100 * total_waste, revenue + 1)
  IN [Server |-> server, Revenue |-> revenue, Void_Value |-> void_value,
      Removed_Value |-> removed_value, Total_Waste |-> total_waste,
      Waste_Rate_Pct |-> rate,
      Revenue_per_Waste_Dollar |-> Quot(revenue, total_waste + 100),
      Status |-> classify_waste(rate)]

\* Lines 213-235: the merged frame, one row per row of server_revenue, by
\* Revenue descending (ties in the order of the keys).
waste_frame(server_revenue, server_voids, server_removed) ==
  SortSeq(Tuple([i \in DOMAIN server_revenue |->
            waste_row(server_revenue[i].Server, server_revenue[i].Value,
                      merged_value(server_voids, server_revenue[i].Server),
                      merged_value(server_removed, server_revenue[i].Server))]),
          LAMBDA a, b : a.Revenue > b.Revenue)

\* The analysis with inner joins: a server stays only if the voids and the
\* removed frame both have a row for it.
analyze_waste_efficiency_inner_join(dt) ==
  IF IsEmpty(dt.sales) THEN <<>>
  ELSE
    Let(find_column_fuzzy(dt.sales, waste_revenue_candidates), LAMBDA revenue_col :
    Let(find_column_fuzzy(dt.sales, waste_server_candidates), LAMBDA server_col :
      IF revenue_col = None \/ server_col = None THEN <<>>
      ELSE
        Let(server_aux(dt.voids), LAMBDA server_voids :
        Let(server_aux(dt.removed), LAMBDA server_removed :
          waste_frame(SelectSeq(server_sums(dt.sales, server_col, revenue_col),
                        LAMBDA r :
                          /\ \E i \in DOMAIN server_voids :
                               server_voids[i].Server = r.Server
                          /\ \E i \in DOMAIN server_removed :
                               server_removed[i].Server = r.Server),
                      server_voids, server_removed)))))

\* analyze_waste_efficiency: the rows of the returned frame, <<>> for the
\* empty frame.
analyze_waste_efficiency(dt) ==
  IF IsEmpty(dt.sales) THEN <<>>
  ELSE
    Let(find_column_fuzzy(dt.sales, waste_revenue_candidates), LAMBDA revenue_col :
    Let(find_column_fuzzy(dt.sales, waste_server_candidates), LAMBDA server_col :
      IF revenue_col = None \/ server_col = None THEN <<>>
      ELSE waste_frame(server_sums(dt.sales, server_col, revenue_col),
                       server_aux(dt.voids), server_aux(dt.removed))))

-----------------------------------------------------------------------------
(* htx_tap_analytics.py: analyze_bottle_conversion *)

\* find_column_fuzzy candidates of analyze_bottle_conversion (lines 250-254).
bottle_menu_item_candidates ==
  <<<<"M", "e", "n", "u", " ", "I", "t", "e", "m">>,
    <<"m", "e", "n", "u", "_", "i", "t", "e", "m">>,
    <<"I", "t", "e", "m", " ", "N", "a", "m", "e">>,
    <<"i", "t", "e", "m", "_", "n", "a", "m", "e">>>>
bottle_table_candidates == <<<<"T", "a", "b", "l", "e">>,
    <<"t", "a", "b", "l", "e">>>>
bottle_check_id_candidates == <<<<"C", "h", "e", "c", "k", " ", "I", "d">>,
    <<"c", "h", "e", "c", "k", "_", "i", "d">>>>

\* A text cell whose characters the code inspects.
Txt(s) == [k |-> "text", v |-> s]

\* The header of the column line 260 writes.
is_bottle == <<"i", "s", "_", "b", "o", "t", "t", "l", "e">>

\* astype(str).str.contains('BTL', case=False, na=False) on one cell: numbers
\* and missing values print as texts without "btl".
contains_btl(c) == c.k = "text" /\ IsSubstring(<<"b", "t", "l">>, lower(c.v))

\* Line 260, sales['is_bottle'] = ...: the table data['sales'] itself gets the
\* column, appended unless a column of that name is there already.
with_is_bottle(sales, menu_item_col) ==
  [columns |-> IF is_bottle \in Range(sales.columns) THEN sales.columns
               ELSE Append(sales.columns, is_bottle),
   data |-> Tuple([i \in DOMAIN sales.data |->
              [h \in DOMAIN sales.data[i] \cup {is_bottle} |->
                 IF h = is_bottle
                 THEN Bool(contains_btl(sales.data[i][menu_item_col]))
                 ELSE sales.data[i][h]]])]

\* Lines 263-274: one row per check id, over the rows with a table when the
\* table column resolved: is_bottle 'max', revenue 'sum', server 'first'
\* (the first server that is not missing, NaN without one).
check_analysis(t, table_col, check_id_col, revenue_col, server_col) ==
  LET rows == IF table_col # None
              THEN {i \in DOMAIN t.data :
                      notna(t.data[i][table_col]) /\ t.data[i][table_col] # Txt(<<>>)}
              ELSE DOMAIN t.data
      keys == group_keys(t, check_id_col, rows)
      group(k) == group_rows(t, check_id_col, rows, k)
      named(k) == {i \in group(k) : notna(t.data[i][server_col])}
  IN Tuple([n \in DOMAIN keys |->
       [check |-> keys[n],
        is_bottle |-> \E i \in group(keys[n]) : t.data[i][is_bottle].v = 1,
        revenue |-> SumCol(t, revenue_col, group(keys[n])),
        server |-> IF named(keys[n]) = {} THEN NaN
                   ELSE t.data[SetMin(named(keys[n]))][server_col]]])

\* Lines 277-288: the summary of the checks.  A mean is the quotient of the
\* sum by the count.
bottle_summary(checks) ==
  LET bottle == {n \in DOMAIN checks : checks[n].is_bottle}
      non_bottle == DOMAIN checks \ bottle
      revenue == [n \in DOMAIN checks |-> checks[n].revenue]
      total(I) == SumF(revenue, I)
  IN [total_checks |-> Len(checks),
      bottle_checks |-> Cardinality(bottle),
      non_bottle_checks |-> Cardinality(non_bottle),
      bottle_pct |-> IF Len(checks) > 0
                     THEN Quot(Cardinality(bottle) * 100, Len(checks)) ELSE Zero,
      avg_bottle_check |-> IF bottle # {}
                           THEN Quot(total(bottle), Cardinality(bottle)) ELSE Zero,
      avg_non_bottle_check |-> IF non_bottle # {}
                               THEN Quot(total(non_bottle), Cardinality(non_bottle))
                               ELSE Zero,
      bottle_premium |-> IF bottle # {} /\ non_bottle # {} /\ total(non_bottle) > 0
                         THEN Quot(total(bottle) * Cardinality(non_bottle),
                                   Cardinality(bottle) * total(non_bottle))
                         ELSE Zero]

\* Lines 291-297: the checks by server (checks without a server belong to no
\* group), by Conversion_Rate descending.
server_conversion(checks) ==
  LET servers == {checks[n].server : n \in {m \in DOMAIN checks : notna(checks[m].server)}}
      of(s) == {n \in DOMAIN checks : checks[n].server = s}
      row(s) ==
        [Server |-> s,
         Bottle_Checks |-> Cardinality({n \in of(s) : checks[n].is_bottle}),
         Total_Checks |-> Cardinality(of(s)),
         Conversion_Rate |-> Quot(100 * Cardinality({n \in of(s) : checks[n].is_bottle}),
                                  Cardinality(of(s))),
         Revenue |-> SumF([n \in DOMAIN checks |-> checks[n].revenue], of(s))]
      RECURSIVE Asc(_)
      Asc(S) == IF S = {} THEN <<>>
                ELSE LET m == CHOOSE m \in S : \A o \in S : m.v <= o.v
                     IN <<row(m)>> \o Asc(S \ {m})
  IN SortSeq(Asc(servers),
             LAMBDA a, b : a.Conversion_Rate[1] * b.Conversion_Rate[2]
                             > b.Conversion_Rate[1] * a.Conversion_Rate[2])

\* analyze_bottle_conversion: what it returns, <<server_conversion, summary>>
\* (<<>> the empty frame, <<>> the empty mapping), and the table data['sales']
\* as the call leaves it.
analyze_bottle_conversion(dt) ==
  IF IsEmpty(dt.sales) THEN [ret |-> <<<<>>, <<>>>>, sales |-> dt.sales]
  ELSE
    Let(find_column_fuzzy(dt.sales, bottle_menu_item_candidates), LAMBDA menu_item_col :
    Let(find_column_fuzzy(dt.sales, bottle_table_candidates), LAMBDA table_col :
    Let(find_column_fuzzy(dt.sales, bottle_check_id_candidates), LAMBDA check_id_col :
    Let(find_column_fuzzy(dt.sales, waste_server_candidates), LAMBDA server_col :
    Let(find_column_fuzzy(dt.sales, waste_revenue_candidates), LAMBDA revenue_col :
      IF None \in {menu_item_col, check_id_col, server_col, revenue_col}
      THEN [ret |-> <<<<>>, <<>>>>, sales |-> dt.sales]
      ELSE
        Let(with_is_bottle(dt.sales, menu_item_col), LAMBDA marked :
        Let(check_analysis(marked, table_col, check_id_col, revenue_col,
                           server_col), LAMBDA checks :
          [ret |-> <<server_conversion(checks), bottle_summary(checks)>>,
           sales |-> marked]))
    )))))

-----------------------------------------------------------------------------
(* htx_tap_analytics.py: analyze_discount_integrity *)

\* find_column_fuzzy candidates of analyze_discount_integrity (lines 404-408).
integrity_server_candidates ==
  <<<<"S", "e", "r", "v", "e", "r">>,
    <<"s", "e", "r", "v", "e", "r">>>>
integrity_amount_candidates ==
  <<<<"D", "i", "s", "c", "o", "u", "n", "t", " ", "A", "m", "o", "u", "n", "t">>,
    <<"d", "i", "s", "c", "o", "u", "n", "t", "_", "a", "m", "o", "u", "n", "t">>,
    <<"T", "o", "t", "a", "l", " ", "P", "r", "i", "c", "e">>,
    <<"t", "o", "t", "a", "l", "_", "p", "r", "i", "c", "e">>>>
integrity_approver_candidates ==
  <<<<"A", "p", "p", "r", "o", "v", "e", "r">>,
    <<"a", "p", "p", "r", "o", "v", "e", "r">>>>
integrity_comment_candidates ==
  <<<<"C", "o", "m", "m", "e", "n", "t">>,
    <<"c", "o", "m", "m", "e", "n", "t">>>>
integrity_opened_date_candidates ==
  <<<<"O", "p", "e", "n", "e", "d", " ", "D", "a", "t", "e">>,
    <<"o", "p", "e", "n", "e", "d", "_", "d", "a", "t", "e">>>>

\* The amount above which a discount needs a comment (line 422), in dollars.
LargeDiscount == 500

\* str(cell): the text Python prints for the cell.
str(c) == [k |-> "text", v |-> <<c>>]
EmptyStr == Txt(<<>>)

\* The rows of a table that satisfy a predicate, as row numbers in order.
rows_where(t, S) ==
  Tuple([n \in 1..Cardinality(S) |->
           CHOOSE i \in S : Cardinality({j \in S : j <= i}) = n])

\* discounts[discounts[amount] > 500]: the rows whose amount is a number
\* above the threshold.
large_discounts(t, amount_col) ==
  {i \in DOMAIN t.data :
     t.data[i][amount_col].k = "num" /\ t.data[i][amount_col].v > LargeDiscount}

\* Lines 421-431: one record per large discount whose comment is missing or
\* the empty text; none when the table has no comment column.
large_flags(t, server_col, amount_col, approver_col, comment_col, opened_date_col) ==
  IF comment_col = None THEN <<>>
  ELSE
    Let(rows_where(t, {i \in large_discounts(t, amount_col) :
                         \/ t.data[i][comment_col].k = "nan"
                         \/ t.data[i][comment_col] = EmptyStr}),
        LAMBDA rows :
          Tuple([n \in DOMAIN rows |->
            ("type" :> "Large discount without comment")
            @@ ("server" :> t.data[rows[n]][server_col])
            @@ ("amount" :> Float(t.data[rows[n]][amount_col].v))
            @@ ("date" :> IF opened_date_col # None
                          THEN str(t.data[rows[n]][opened_date_col]) ELSE EmptyStr)
            @@ ("approver" :> IF approver_col # None
                              THEN str(t.data[rows[n]][approver_col]) ELSE EmptyStr)]))

\* Lines 434-442: one record per row whose server equals its approver (a
\* missing value equals nothing); none when the table has no approver column.
self_approved_flags(t, server_col, amount_col, approver_col, opened_date_col) ==
  IF approver_col = None THEN <<>>
  ELSE
    Let(rows_where(t, {i \in DOMAIN t.data :
                         /\ t.data[i][server_col].k # "nan"
                         /\ t.data[i][server_col] = t.data[i][approver_col]}),
        LAMBDA rows :
          Tuple([n \in DOMAIN rows |->
            ("type" :> "Self-approved discount")
            @@ ("server" :> t.data[rows[n]][server_col])
            @@ ("amount" :> IF t.data[rows[n]][amount_col].k \in {"num", "bool"}
                            THEN Float(t.data[rows[n]][amount_col].v)
                            ELSE Quot(0, 0))
            @@ ("date" :> IF opened_date_col # None
                          THEN str(t.data[rows[n]][opened_date_col]) ELSE EmptyStr)]))

\* groupby(key_col)[amount_col].agg(['sum', 'count']).reset_index(): one row
\* per key, in the order of the keys.
sum_count(t, key_col, amount_col) ==
  Let(group_keys(t, key_col, DOMAIN t.data), LAMBDA keys :
    Tuple([i \in DOMAIN keys |->
             [Key |-> keys[i],
              Total |-> SumCol(t, amount_col,
                               group_rows(t, key_col, DOMAIN t.data, keys[i])),
              Count |-> count(t, amount_col,
                              group_rows(t, key_col, DOMAIN t.data, keys[i]))]]))

\* analyze_discount_integrity: <<server_discounts, approver_analysis,
\* red_flags>>, the frames as their rows; approver_analysis by Total
\* descending.
analyze_discount_integrity(dt) ==
  IF IsEmpty(dt.discounts) THEN <<<<>>, <<>>, <<>>>>
  ELSE
    Let(find_column_fuzzy(dt.discounts, integrity_server_candidates), LAMBDA server_col :
    Let(find_column_fuzzy(dt.discounts, integrity_amount_candidates), LAMBDA amount_col :
    Let(find_column_fuzzy(dt.discounts, integrity_approver_candidates), LAMBDA approver_col :
    Let(find_column_fuzzy(dt.discounts, integrity_comment_candidates), LAMBDA comment_col :
    Let(find_column_fuzzy(dt.discounts, integrity_opened_date_candidates),
        LAMBDA opened_date_col :
      IF server_col = None \/ amount_col = None THEN <<<<>>, <<>>, <<>>>>
      ELSE
        <<sum_count(dt.discounts, server_col, amount_col),
          IF approver_col = None THEN <<>>
          ELSE SortSeq(sum_count(dt.discounts, approver_col, amount_col),
                       LAMBDA a, b : a.Total > b.Total),
          large_flags(dt.discounts, server_col, amount_col, approver_col,
                      comment_col, opened_date_col)
          \o self_approved_flags(dt.discounts, server_col, amount_col,
                                 approver_col, opened_date_col)>>)))))

-----------------------------------------------------------------------------
(* The inputs explored: headers, tables, parameters, preset tokens *)

hOrderDate == <<"O","r","d","e","r"," ","D","a","t","e">>   \* "Order Date"
hSentDate == <<"S","e","n","t"," ","D","a","t","e">>   \* "Sent Date"
hNetPrice == <<"N","e","t"," ","P","r","i","c","e">>   \* "Net Price"
hOrderId == <<"O","r","d","e","r"," ","I","d">>   \* "Order Id"
hMenuItem == <<"M","e","n","u"," ","I","t","e","m">>   \* "Menu Item"
hIsVoid == <<"i","s","_","v","o","i","d">>   \* "is_void"
hDiscount == <<"D","i","s","c","o","u","n","t">>   \* "Discount"
hRemoved == <<"R","e","m","o","v","e","d">>   \* "Removed"
hServer == <<"S","e","r","v","e","r">>   \* "Server"
hCategory == <<"C","a","t","e","g","o","r","y">>   \* "Category"
hReason == <<"R","e","a","s","o","n">>   \* "Reason"
hNet_Price == <<"N","e","t","_","P","r","i","c","e">>   \* "Net_Price"
hTotal == <<"T","o","t","a","l">>   \* "Total"
hTOTAL == <<"T","O","T","A","L">>   \* "TOTAL"
hGrandTotal == <<"G","r","a","n","d"," ","T","o","t","a","l">>   \* "Grand Total"
hReceiptTotal == <<"R","e","c","e","i","p","t"," ","T","o","t","a","l">>   \* "Receipt Total"
hTotalDue == <<"T","o","t","a","l"," ","D","u","e">>   \* "Total Due"
hOrder_date == <<"o","r","d","e","r","_","d","a","t","e">>   \* "order_date"
hOrderDateJoined == <<"O","r","d","e","r","D","a","t","e">>   \* "OrderDate"

ExampleCandidates ==
  << <<"n","e","t","_","p","r","i","c","e">>,   \* "net_price"
     <<"t","o","t","a","l">> >>   \* "total"
ReversedCandidates ==
  << <<"t","o","t","a","l">>,   \* "total"
     <<"n","e","t","_","p","r","i","c","e">> >>   \* "net_price"
OrderDateCandidates ==
  << <<"o","r","d","e","r"," ","d","a","t","e">> >>   \* "order date"

PresetTokens ==
  {  <<"3","0","d">>,   \* "30d"
     <<"7","d">>,   \* "7d"
     <<"1","d">>,   \* "1d"
     <<"0","d">>,   \* "0d"
     <<"9","0","d">>,   \* "90d"
     <<"2","w">>,   \* "2w"
     <<"7","w">>,   \* "7w"
     <<"1","y">>,   \* "1y"
     <<"2","y">>,   \* "2y"
     <<"3","0">>,   \* "30"
     <<"7","m">>,   \* "7m"
     <<"x","d">>,   \* "xd"
     <<"d">>,   \* "d"
     <<"-","7","d">>,   \* "-7d"
     <<"w">>,   \* "w"
     <<" ","7","d">> }   \* " 7d"

\* Bounds of the exploration.
MaxRows == 2       \* rows of a table handed to run_full_analysis
MaxCalls == 2      \* successive calls of run_full_analysis on one input
MaxHeaders == 2    \* headers of a table handed to the resolvers alone
MaxAnchors == 3    \* max dates tried per hour of day, for the preset window

\* 2024-06-15T00:00, a Saturday.
BaseTs == to_datetime_iso(<<2024, 6, 15>>)
Day == HoursPerDay

\* A row over every header of the pool; a table keeps the cells of its columns.
\* "Receipt Total" holds the amount too: a header both the amount role
\* ("total") and the order-id role ("receipt") resolve to.
MkRow(od, sd, np, oid, item, void, disc, rem, server, cat, reason) ==
  (hOrderDate :> od) @@ (hSentDate :> sd) @@ (hNetPrice :> np) @@ (hOrderId :> oid)
  @@ (hMenuItem :> item) @@ (hIsVoid :> void) @@ (hDiscount :> disc)
  @@ (hRemoved :> rem) @@ (hServer :> server) @@ (hCategory :> cat)
  @@ (hReason :> reason) @@ (hReceiptTotal :> np) @@ (hOrder_date :> od)

RowPool ==
  << \* the start of the 7-day window of BaseTs, at midnight
     MkRow(DateStr(BaseTs - 6 * Day), DateStr(BaseTs - 6 * Day), Num(5), Num(2),
           Str(2), Bool(FALSE), Num(0), Num(2), Str(1), Str(2), NaN),
     \* the hour before it; sent within the window; the flag a number
     MkRow(DateStr(BaseTs - 6 * Day - 1), DateStr(BaseTs - 6 * Day + 1), Num(7), Num(3),
           Str(2), Num(1), Num(1), Num(0), Str(2), Str(2), Str(2)),
     \* midnight of the base day
     MkRow(DateStr(BaseTs), DateStr(BaseTs), Num(11), Num(4),
           Str(3), Bool(TRUE), Num(0), Num(0), Str(1), Str(1), Str(1)),
     \* 10:00 and 22:00 of the base day, one order
     MkRow(DateStr(BaseTs + 10), DateStr(BaseTs + 11), Num(20), Num(1),
           Str(1), Bool(FALSE), Num(0), Num(0), Str(1), Str(1), NaN),
     MkRow(DateStr(BaseTs + 22), DateStr(BaseTs + Day + 1), Num(30), Num(1),
           Str(1), Bool(TRUE), Num(5), Num(3), Str(2), Str(1), Str(2)),
     \* a row whose dates do not parse and whose amount is missing
     MkRow(Str(9), Str(9), NaN, NaN,
           Str(1), NaN, NaN, NaN, Str(2), NaN, Str(1)),
     \* a row ordered at no date that parses, sent at noon of the base day
     MkRow(Str(9), DateStr(BaseTs + 12), Num(13), Num(5),
           Str(3), Bool(FALSE), Num(0), Num(0), Str(1), Str(1), NaN) >>

\* The rows of a table: up to MaxRows rows of the pool, in the pool's order.
RowChoices ==
  {s \in UNION {[1..n -> DOMAIN RowPool] : n \in 0..MaxRows} :
     \A i \in 1..(Len(s) - 1) : s[i] < s[i + 1]}

Table(cols, idxs) ==
  [columns |-> cols,
   data |-> [n \in DOMAIN idxs |-> [h \in Range(cols) |-> RowPool[idxs[n]][h]]]]

ColumnConfigs ==
  { <<hOrderDate, hNetPrice, hOrderId, hMenuItem, hIsVoid, hDiscount, hRemoved,
      hServer, hCategory, hReason>>,
    <<hSentDate, hOrderDate, hNetPrice, hMenuItem, hCategory>>,
    <<hOrderDate, hNetPrice, hMenuItem, hIsVoid>>,
    <<hOrderDate, hNetPrice, hMenuItem, hDiscount>>,
    <<hOrderDate, hNetPrice, hMenuItem, hRemoved, hServer>>,
    <<hNetPrice, hMenuItem, hIsVoid, hDiscount>>,
    <<hOrderDate, hMenuItem, hIsVoid>>,
    <<hOrderDate, hNetPrice, hOrderId, hIsVoid, hRemoved, hCategory>>,
    <<hOrderDate, hReceiptTotal, hMenuItem>>,
    <<hSentDate, hNetPrice, hMenuItem>>,
    <<hOrder_date, hNetPrice, hMenuItem>> }

Tables == {Table(c, s) : c \in ColumnConfigs, s \in RowChoices}

ClientIds == {"melrose", "fancy"}

\* Arguments of apply_date_range and get_data_coverage: a date column that is
\* in the table, one that holds no date, one the table may lack, or none; a
\* window, bounds that do not parse, a missing bound and the empty text.
DateArgs ==
  [date_col : {None, hOrderDate, hSentDate, hMenuItem},
   start_iso : {<<2024, 6, 9>>, <<0, 0, 0>>, <<"">>},
   end_iso : {<<2024, 6, 16>>, <<0, 0, 0>>, None}]

P7d == <<"7","d">>
P1d == <<"1","d">>
Pxd == <<"x","d">>
BadISO == <<0, 0, 0>>       \* a text pd.to_datetime rejects

DateRange(s, e, p) == [start |-> s, end |-> e, preset |-> p]
ParamChoices ==
  {[dateRange |-> r] : r \in
     { DateRange(None, None, None),
       DateRange(None, None, P7d),
       DateRange(None, None, P1d),
       DateRange(<<2024, 1, 1>>, <<2024, 1, 31>>, P7d),
       DateRange(<<2024, 6, 9>>, None, P7d),
       DateRange(<<2024, 6, 9>>, <<2024, 6, 15>>, None),
       DateRange(<<2024, 6, 9>>, <<2024, 6, 15>>, Pxd),
       DateRange(<<2024, 6, 15>>, <<2024, 6, 16>>, None),
       DateRange(<<2024, 6, 9>>, None, None),
       DateRange(<<2024, 6, 9>>, BadISO, None) }}

\* Tables for the resolvers alone: up to MaxHeaders distinct headers, with no
\* row or one row of missing values.
ResolverHeaders ==
  {hNet_Price, hTotal, hTOTAL, hGrandTotal, hTotalDue, hOrderDate, hOrder_date,
   hOrderDateJoined}
HeaderLists ==
  {s \in UNION {[1..n -> ResolverHeaders] : n \in 0..MaxHeaders} :
     \A i, j \in DOMAIN s : i # j => s[i] # s[j]}
ResolverTables ==
  {[columns |-> hs, data |-> <<>>] : hs \in HeaderLists}
  \cup {[columns |-> hs, data |-> <<[h \in Range(hs) |-> NaN]>>] : hs \in HeaderLists}
CandidateLists == {ExampleCandidates, ReversedCandidates, OrderDateCandidates}

\* Tables for find_date_column: business-specific and generic date headers.
hDate == <<"d","a","t","e">>   \* "date"
hTimestamp == <<"t","i","m","e","s","t","a","m","p">>   \* "timestamp"
hBusinessDate == <<"B","u","s","i","n","e","s","s"," ","D","a","t","e">>   \* "Business Date"
hCloseDate == <<"C","l","o","s","e"," ","D","a","t","e">>   \* "Close Date"
DateHeaders ==
  {hSentDate, hOrderDate, hBusinessDate, hCloseDate, hDate, hTimestamp, hNetPrice}
DateTables ==
  {[columns |-> hs, data |-> rows] :
     hs \in {s \in UNION {[1..n -> DateHeaders] : n \in 0..MaxHeaders} :
               \A i, j \in DOMAIN s : i # j => s[i] # s[j]},
     rows \in {<<>>, <<[h \in DateHeaders |-> NaN]>>}}

\* Headers and cells of the tables of htx_tap_analytics.
hTotalPrice == <<"T","o","t","a","l"," ","P","r","i","c","e">>   \* "Total Price"
hCheckId == <<"C","h","e","c","k"," ","I","d">>   \* "Check Id"
hTable == <<"T","a","b","l","e">>   \* "Table"
ServerA == Str(1)
ServerB == Str(2)
ServerC == Str(3)
GreyGooseBTL == Txt(<<"G","r","e","y"," ","G","o","o","s","e"," ","B","T","L">>)
BtlPatron == Txt(<<"b","t","l"," ","P","a","t","r","o","n">>)
Margarita == Txt(<<"M","a","r","g","a","r","i","t","a">>)

\* The rows of a pool picked by a set of indices, in the pool's order, cut to
\* the columns of the table.
PoolTable(cols, pool, idxs) ==
  [columns |-> cols,
   data |-> Tuple([n \in 1..Cardinality(idxs) |->
              [h \in Range(cols) |->
                 pool[CHOOSE i \in idxs : Cardinality({j \in idxs : j <= i}) = n][h]]])]

\* The subsets of 1..n with at most MaxRows elements.
UpToMaxRows(n) == {s \in SUBSET (1..n) : Cardinality(s) <= MaxRows}

\* Exports with amounts that are not positive numbers: "void" where a price,
\* or a discount, should be, and a refund.
TextAmount == Txt(<<"v", "o", "i", "d">>)

DirtyPool ==
  << \* 10:00 of the base day, the price "void"
     MkRow(DateStr(BaseTs + 10), DateStr(BaseTs + 10), TextAmount, Num(1),
           Str(1), Bool(FALSE), Num(0), Num(0), Str(1), Str(1), NaN),
     \* midnight of the base day
     MkRow(DateStr(BaseTs), DateStr(BaseTs), Num(11), Num(2),
           Str(2), Bool(FALSE), Num(1), Num(0), Str(1), Str(1), NaN),
     \* the day before, the price missing
     MkRow(DateStr(BaseTs - Day), DateStr(BaseTs - Day), NaN, Num(3),
           Str(1), Bool(FALSE), Num(0), Num(0), Str(2), Str(1), NaN),
     \* noon of the base day, the discount "void"
     MkRow(DateStr(BaseTs + 12), DateStr(BaseTs + 12), Num(20), Num(4),
           Str(2), Bool(FALSE), TextAmount, Num(0), Str(2), Str(2), NaN),
     \* 13:00 of the base day, a voided refund: the price negative
     MkRow(DateStr(BaseTs + 13), DateStr(BaseTs + 13), Num(0 - 30), Num(5),
           Str(2), Bool(TRUE), Num(0), Num(0), Str(2), Str(2), NaN) >>

DirtyTables ==
  {PoolTable(cols, DirtyPool, s) :
     cols \in {<<hOrderDate, hNetPrice, hMenuItem>>,
               <<hOrderDate, hNetPrice, hMenuItem, hDiscount>>,
               <<hOrderDate, hReceiptTotal, hMenuItem>>,
               <<hOrderDate, hNetPrice, hMenuItem, hIsVoid>>},
     s \in UpToMaxRows(Len(DirtyPool))}

\* Discounts in dollars: a large one without a comment, a self-approved one
\* with a comment, one that is both (its comment the empty text), one of
\* exactly 500, and one without a server.
hDiscountAmount == <<"D", "i", "s", "c", "o", "u", "n", "t", " ", "A", "m", "o", "u", "n", "t">>   \* "Discount Amount"
hApprover == <<"A", "p", "p", "r", "o", "v", "e", "r">>   \* "Approver"
hComment == <<"C", "o", "m", "m", "e", "n", "t">>   \* "Comment"
DiscountRow(server, amount, approver, comment) ==
  (hServer :> server) @@ (hDiscountAmount :> amount) @@ (hApprover :> approver)
  @@ (hComment :> comment)

DiscountPool ==
  << DiscountRow(ServerA, Num(600), ServerB, NaN),
     DiscountRow(ServerA, Num(600), ServerA, Txt(<<"o", "k">>)),
     DiscountRow(ServerB, Num(501), ServerB, Txt(<<>>)),
     DiscountRow(ServerB, Num(500), ServerC, NaN),
     DiscountRow(NaN, Num(700), ServerC, Txt(<<"o", "k">>)) >>

DiscountTables ==
  {PoolTable(cols, DiscountPool, s) :
     cols \in {<<hServer, hDiscountAmount, hApprover, hComment>>,
               <<hServer, hDiscountAmount, hApprover>>,
               <<hServer, hDiscountAmount, hComment>>,
               <<hServer, hComment>>},
     s \in UpToMaxRows(Len(DiscountPool))}

\* Tables of voids by category and reason: nc categories with nr voided rows
\* each, one per reason, priced 1..13; one row per category that is not
\* voided; and one more category with a single row that is not voided.
MaxCategories == 11
MaxReasons == 11
WasteRow(c, r, price, void) ==
  (hNetPrice :> Num(price)) @@ (hIsVoid :> Bool(void)) @@ (hCategory :> Str(c))
  @@ (hReason :> IF r = 0 THEN NaN ELSE Str(r))
WasteRows(nc, nr) ==
  [i \in 1..(nc * nr + nc + 1) |->
     IF i <= nc * nr
     THEN LET c == ((i - 1) \div nr) + 1
              r == ((i - 1) % nr) + 1
          IN WasteRow(c, r, ((3 * c + 7 * r) % 13) + 1, TRUE)
     ELSE IF i <= nc * nr + nc THEN WasteRow(i - nc * nr, 0, 50, FALSE)
     ELSE WasteRow(nc + 1, 1, 5, FALSE)]
WasteTables ==
  {[columns |-> cols,
    data |-> Tuple([i \in DOMAIN WasteRows(nc, nr) |->
                      [h \in Range(cols) |-> WasteRows(nc, nr)[i][h]]])] :
     cols \in {<<hNetPrice, hIsVoid, hCategory, hReason>>,
               <<hNetPrice, hIsVoid, hReason>>,
               <<hNetPrice, hIsVoid, hCategory>>},
     nc \in 0..MaxCategories,
     nr \in 0..MaxReasons}

\* Tables with up to MaxEmployees servers, one or two rows each: row i is of
\* server (i + per - 1) \div per, its price 7 i modulo 11, every third row
\* voided.
MaxEmployees == 52
EmployeeRow(i, per) ==
  (hServer :> Str((i + per - 1) \div per)) @@ (hNetPrice :> Num((i * 7) % 11))
  @@ (hIsVoid :> Bool(i % 3 = 0))
EmployeeTables ==
  {[columns |-> cols,
    data |-> Tuple([i \in 1..(n * per) |-> [h \in Range(cols) |-> EmployeeRow(i, per)[h]]])] :
     cols \in {<<hServer, hNetPrice>>, <<hServer, hNetPrice, hIsVoid>>, <<hNetPrice, hIsVoid>>},
     n \in 0..MaxEmployees,
     per \in {1, 2}}

SalesRow(server, price, item, check, table) ==
  (hServer :> server) @@ (hNetPrice :> price) @@ (hMenuItem :> item)
  @@ (hCheckId :> check) @@ (hTable :> table)

\* Sales in cents.  Server A sells 99 and, in a refund, -1; one row has no
\* server.
SalesPool ==
  << SalesRow(ServerA, Num(99), GreyGooseBTL, Num(1), Txt(<<"T", "1">>)),
     SalesRow(ServerA, Num(-1), Margarita, Num(2), Txt(<<"T", "2">>)),
     SalesRow(ServerB, Num(99), Margarita, Num(2), NaN),
     SalesRow(ServerB, Num(50), BtlPatron, Num(3), Txt(<<"T", "2">>)),
     SalesRow(NaN, Num(20), Margarita, Num(3), Txt(<<>>)) >>

SalesTables ==
  {PoolTable(cols, SalesPool, s) :
     cols \in {<<hServer, hNetPrice, hMenuItem, hCheckId, hTable>>,
               <<hServer, hNetPrice, hMenuItem, hCheckId>>,
               <<hServer, hMenuItem>>},
     s \in UpToMaxRows(Len(SalesPool))}

AuxRow(server, price) == (hServer :> server) @@ (hTotalPrice :> price)

VoidsPool ==
  << AuxRow(ServerA, Num(10)), AuxRow(ServerA, Num(5)), AuxRow(ServerC, Num(30)) >>

VoidsTables ==
  {PoolTable(cols, VoidsPool, s) :
     cols \in {<<hServer, hTotalPrice>>, <<hTotalPrice>>},
     s \in UpToMaxRows(Len(VoidsPool))}

RemovedPool == << AuxRow(ServerA, Num(5)), AuxRow(ServerC, Num(7)) >>

RemovedTables ==
  {PoolTable(<<hServer, hTotalPrice>>, RemovedPool, s) : s \in SUBSET {1, 2}}


\* Max dates for the preset window: days around BaseTs (crossing month ends
\* and 29 February 2024), at the first, a middle and the last hour.
MaxDates ==
  {BaseTs - 36 * k * Day + h : k \in 0..MaxAnchors, h \in {0, 10, 23}}

-----------------------------------------------------------------------------
(* The state machines *)

\* The pipeline: run_full_analysis called up to MaxCalls times on one table,
\* client id and params.
Init ==
  /\ df \in Tables
  /\ client_id \in ClientIds
  /\ params \in ParamChoices
  /\ RAW_DATE_COL = None
  /\ calls = <<>>
  /\ pc = "ready"
  /\ data = None /\ args = None /\ ret = None
  /\ candidates = None /\ mode = "exact" /\ found = None
  /\ preset = None /\ max_date = 0 /\ window = None

\* A call of run_full_analysis that filters the caller's table in place: the
\* table of the next call is the filtered one.
RunFullAnalysisInPlace ==
  /\ Len(calls) < MaxCalls
  /\ calls' = Append(calls, run_full_analysis(df, client_id, params))
  /\ df' = run_full_analysis(df, client_id, params).filtered
  /\ pc' = "run_full_analysis"
  /\ UNCHANGED <<data, args, ret, client_id, params, RAW_DATE_COL, candidates, mode, found,
                 preset, max_date, window>>

\* A call of run_full_analysis.  It binds its own names only: the caller's
\* table and params and the module's RAW_DATE_COL stay as they are.
RunFullAnalysis ==
  /\ Len(calls) < MaxCalls
  /\ calls' = Append(calls, run_full_analysis(df, client_id, params))
  /\ pc' = "run_full_analysis"
  /\ UNCHANGED <<data, args, ret, df, client_id, params, RAW_DATE_COL, candidates, mode, found,
                 preset, max_date, window>>

Next == RunFullAnalysis

Spec == Init /\ [][Next]_vars

\* run_full_analysis on exports whose amounts are not all numbers.
InitDirty ==
  /\ df \in DirtyTables
  /\ client_id \in ClientIds
  /\ params \in ParamChoices
  /\ RAW_DATE_COL = None
  /\ calls = <<>>
  /\ pc = "ready"
  /\ data = None /\ args = None /\ ret = None
  /\ candidates = None /\ mode = "exact" /\ found = None
  /\ preset = None /\ max_date = 0 /\ window = None

SpecDirty == InitDirty /\ [][Next]_vars

\* detect_schema, get_data_coverage and apply_date_range, each applied once
\* to a table (or to None) with the arguments of a caller.
InitTable ==
  /\ df \in Tables \cup {None, [columns |-> <<>>, data |-> <<>>]}
  /\ args \in DateArgs
  /\ ret = None
  /\ pc = "ready"
  /\ data = None
  /\ candidates = None /\ mode = "exact" /\ found = None
  /\ preset = None /\ max_date = 0 /\ window = None
  /\ client_id = "" /\ params = [dateRange |-> DateRange(None, None, None)]
  /\ RAW_DATE_COL = None /\ calls = <<>>

DetectSchema ==
  /\ pc = "ready"
  /\ ret' = detect_schema(df)
  /\ pc' = "detect_schema"
  /\ UNCHANGED <<data, args, df, candidates, mode, found, preset, max_date, window,
                 client_id, params, RAW_DATE_COL, calls>>

GetDataCoverage ==
  /\ pc = "ready"
  /\ ret' = get_data_coverage(df, args.date_col)
  /\ pc' = "get_data_coverage"
  /\ UNCHANGED <<data, args, df, candidates, mode, found, preset, max_date, window,
                 client_id, params, RAW_DATE_COL, calls>>

ApplyDateRange ==
  /\ pc = "ready"
  /\ ret' = apply_date_range(df, args.date_col, args.start_iso, args.end_iso)
  /\ pc' = "apply_date_range"
  /\ UNCHANGED <<data, args, df, candidates, mode, found, preset, max_date, window,
                 client_id, params, RAW_DATE_COL, calls>>

NextTable == DetectSchema \/ GetDataCoverage \/ ApplyDateRange

SpecTable == InitTable /\ [][NextTable]_vars

\* find_date_column applied once to a table, with the preferred header of the
\* caller in args.
InitDate ==
  /\ df \in DateTables
  /\ args \in {None, hSentDate, hTimestamp}
  /\ found = None
  /\ pc = "ready"
  /\ data = None /\ ret = None
  /\ candidates = None /\ mode = "exact"
  /\ preset = None /\ max_date = 0 /\ window = None
  /\ client_id = "" /\ params = [dateRange |-> DateRange(None, None, None)]
  /\ RAW_DATE_COL = None /\ calls = <<>>

FindDateColumn ==
  /\ pc = "ready"
  /\ found' = find_date_column(df, args)
  /\ pc' = "find_date_column"
  /\ UNCHANGED <<data, args, ret, df, candidates, mode, preset, max_date, window,
                 client_id, params, RAW_DATE_COL, calls>>

NextDate == FindDateColumn

SpecDate == InitDate /\ [][NextDate]_vars

\* _compute_waste_efficiency applied once to a table and its schema.
InitWaste ==
  /\ df \in WasteTables
  /\ ret = None /\ args = None /\ data = None
  /\ found = None
  /\ pc = "ready"
  /\ candidates = None /\ mode = "exact"
  /\ preset = None /\ max_date = 0 /\ window = None
  /\ client_id = "" /\ params = [dateRange |-> DateRange(None, None, None)]
  /\ RAW_DATE_COL = None /\ calls = <<>>

ComputeWasteEfficiency ==
  /\ pc = "ready"
  /\ ret' = _compute_waste_efficiency(df, detect_schema(df))
  /\ pc' = "_compute_waste_efficiency"
  /\ UNCHANGED <<data, args, df, candidates, mode, found, preset, max_date, window,
                 client_id, params, RAW_DATE_COL, calls>>

NextWaste == ComputeWasteEfficiency

SpecWaste == InitWaste /\ [][NextWaste]_vars

\* _compute_employee_performance applied once to a table and its schema.
InitEmployee ==
  /\ df \in EmployeeTables
  /\ ret = None /\ args = None /\ data = None
  /\ found = None
  /\ pc = "ready"
  /\ candidates = None /\ mode = "exact"
  /\ preset = None /\ max_date = 0 /\ window = None
  /\ client_id = "" /\ params = [dateRange |-> DateRange(None, None, None)]
  /\ RAW_DATE_COL = None /\ calls = <<>>

ComputeEmployeePerformance ==
  /\ pc = "ready"
  /\ ret' = _compute_employee_performance(df, detect_schema(df))
  /\ pc' = "_compute_employee_performance"
  /\ UNCHANGED <<data, args, df, candidates, mode, found, preset, max_date, window,
                 client_id, params, RAW_DATE_COL, calls>>

NextEmployee == ComputeEmployeePerformance

SpecEmployee == InitEmployee /\ [][NextEmployee]_vars

\* The resolvers: find_col or find_column_fuzzy applied once to a table.
InitCol ==
  /\ df \in ResolverTables
  /\ candidates \in CandidateLists
  /\ mode \in {"exact", "contains"}
  /\ found = None
  /\ pc = "ready"
  /\ data = None /\ args = None /\ ret = None
  /\ preset = None /\ max_date = 0 /\ window = None
  /\ client_id = "" /\ params = [dateRange |-> DateRange(None, None, None)]
  /\ RAW_DATE_COL = None /\ calls = <<>>

FindCol ==
  /\ pc = "ready"
  /\ found' = find_col(df, candidates, mode)
  /\ pc' = "find_col"
  /\ UNCHANGED <<data, args, ret, df, candidates, mode, preset, max_date, window, client_id,
                 params, RAW_DATE_COL, calls>>

FindColumnFuzzy ==
  /\ pc = "ready"
  /\ found' = find_column_fuzzy(df, candidates)
  /\ pc' = "find_column_fuzzy"
  /\ UNCHANGED <<data, args, ret, df, candidates, mode, preset, max_date, window, client_id,
                 params, RAW_DATE_COL, calls>>

NextCol == FindCol \/ FindColumnFuzzy

SpecCol == InitCol /\ [][NextCol]_vars

\* The preset window: compute_preset_window applied once.
InitPreset ==
  /\ preset \in PresetTokens
  /\ max_date \in MaxDates
  /\ window = None
  /\ pc = "ready"
  /\ data = None /\ args = None /\ ret = None
  /\ df = [columns |-> <<>>, data |-> <<>>]
  /\ candidates = None /\ mode = "exact" /\ found = None
  /\ client_id = "" /\ params = [dateRange |-> DateRange(None, None, None)]
  /\ RAW_DATE_COL = None /\ calls = <<>>

ComputePresetWindow ==
  /\ pc = "ready"
  /\ window' = compute_preset_window(preset, max_date)
  /\ pc' = "compute_preset_window"
  /\ UNCHANGED <<data, args, ret, df, candidates, mode, found, preset, max_date, client_id,
                 params, RAW_DATE_COL, calls>>

NextPreset == ComputePresetWindow

SpecPreset == InitPreset /\ [][NextPreset]_vars

\* The analyses of htx_tap_analytics, called one after the other on one
\* mapping of tables.
InitAnalytics ==
  /\ data \in [sales : SalesTables, voids : VoidsTables, removed : RemovedTables]
  /\ ret = None /\ args = None
  /\ calls = <<>>
  /\ pc = "ready"
  /\ df = [columns |-> <<>>, data |-> <<>>]
  /\ candidates = None /\ mode = "exact" /\ found = None
  /\ preset = None /\ max_date = 0 /\ window = None
  /\ client_id = "" /\ params = [dateRange |-> DateRange(None, None, None)]
  /\ RAW_DATE_COL = None

\* analyze_waste_efficiency(data): it reads the three tables.
AnalyzeWasteEfficiency ==
  /\ Len(calls) < MaxCalls
  /\ ret' = analyze_waste_efficiency(data)
  /\ calls' = Append(calls, "analyze_waste_efficiency")
  /\ pc' = "analyze_waste_efficiency"
  /\ UNCHANGED <<data, args, df, candidates, mode, found, preset, max_date, window,
                 client_id, params, RAW_DATE_COL>>

\* analyze_bottle_conversion(data): data['sales'] is the caller's table, and
\* the column the analysis writes stays in it.
AnalyzeBottleConversion ==
  /\ Len(calls) < MaxCalls
  /\ ret' = analyze_bottle_conversion(data).ret
  /\ data' = [data EXCEPT !.sales = analyze_bottle_conversion(data).sales]
  /\ calls' = Append(calls, "analyze_bottle_conversion")
  /\ pc' = "analyze_bottle_conversion"
  /\ UNCHANGED <<args, df, candidates, mode, found, preset, max_date, window,
                 client_id, params, RAW_DATE_COL>>

NextAnalytics == AnalyzeWasteEfficiency \/ AnalyzeBottleConversion

SpecAnalytics == InitAnalytics /\ [][NextAnalytics]_vars

\* analyze_discount_integrity applied to a mapping with a discounts table.
InitDiscount ==
  /\ data \in [discounts : DiscountTables]
  /\ ret = None /\ args = None
  /\ calls = <<>>
  /\ pc = "ready"
  /\ df = [columns |-> <<>>, data |-> <<>>]
  /\ candidates = None /\ mode = "exact" /\ found = None
  /\ preset = None /\ max_date = 0 /\ window = None
  /\ client_id = "" /\ params = [dateRange |-> DateRange(None, None, None)]
  /\ RAW_DATE_COL = None

AnalyzeDiscountIntegrity ==
  /\ pc = "ready"
  /\ ret' = analyze_discount_integrity(data)
  /\ pc' = "analyze_discount_integrity"
  /\ UNCHANGED <<data, args, df, candidates, mode, found, preset, max_date, window,
                 client_id, params, RAW_DATE_COL, calls>>

NextDiscount == AnalyzeDiscountIntegrity

SpecDiscount == InitDiscount /\ [][NextDiscount]_vars

-----------------------------------------------------------------------------
(* The claims about the pipeline, checked under Spec *)

\* The calls on whose aggregated table the chart builders pass their guards:
\* the table has rows, the amount role resolved, a header reads "order date"
\* and at least one of its cells parses.
C1_BuildersRun(c) ==
  /\ ~IsEmpty(c.filtered)
  /\ chart_columns_found(c.filtered, c.schema)
  /\ valid_order_rows(c.filtered, order_date_column(c.filtered)) # {}

\* The hours of day the rows of the aggregated table fall in.
C1_Hours(c) ==
  {HourOf(to_datetime(c.filtered.data[i][order_date_column(c.filtered)]).v) :
     i \in valid_order_rows(c.filtered, order_date_column(c.filtered))}

\* C1: on every input on which the chart builders run, hour_of_day has exactly
\* 24 rows, Hour 0..23 ascending, with Net Price 0 and Order Id 0 for the
\* hours without rows; day_of_week has exactly the 7 rows Monday..Sunday in
\* calendar order; revenue_heatmap has exactly 168 rows, one per (hour, day)
\* pair.
C1_ChartCompleteness ==
  \A n \in DOMAIN calls :
    LET c == calls[n]
        charts == c.result.charts
    IN C1_BuildersRun(c) =>
         /\ Len(charts.hour_of_day) = 24
         /\ \A k \in 1..24 : charts.hour_of_day[k]["Hour"] = k - 1
         /\ \A k \in 1..24 :
              (k - 1) \notin C1_Hours(c) =>
                /\ charts.hour_of_day[k]["Net Price"] = <<0, 1>>
                /\ charts.hour_of_day[k]["Order Id"] = 0
         /\ Len(charts.day_of_week) = 7
         /\ [k \in 1..7 |-> charts.day_of_week[k]["Day"]]
              = <<"Monday", "Tuesday", "Wednesday", "Thursday", "Friday",
                  "Saturday", "Sunday">>
         /\ Len(charts.revenue_heatmap) = 168
         /\ {<<charts.revenue_heatmap[k]["hour"], charts.revenue_heatmap[k]["day"]>> :
               k \in DOMAIN charts.revenue_heatmap}
              = (0..23) \X {"Mon", "Tue", "Wed", "Thu", "Fri", "Sat", "Sun"}

\* The params carry a preset token together with an explicit start or end.
C2_PresetAndExplicit ==
  /\ params.dateRange.preset # None
  /\ (params.dateRange.start # None \/ params.dateRange.end # None)

\* The timestamps the date column of the caller's table parses to.
C2_ParsedDates(col) ==
  {to_datetime(df.data[i][col]).v :
     i \in {j \in DOMAIN df.data : to_datetime(df.data[j][col]) # NaT}}

\* The window compute_preset_window derives from the preset and the max date
\* of the table; None without a date column, a parseable date or a token that
\* int() accepts.
C2_PresetWindow ==
  LET col == run_date_col(df, detect_schema(df))
  IN IF col = None THEN None
     ELSE IF C2_ParsedDates(col) = {} THEN None
     ELSE IF compute_preset_window(params.dateRange.preset,
                                   SetMax(C2_ParsedDates(col))) = Raise THEN None
     ELSE <<col>> \o compute_preset_window(params.dateRange.preset,
                                           SetMax(C2_ParsedDates(col)))

\* C2: when dateRange carries a preset and explicit start/end, the window
\* handed to the filter is the one compute_preset_window derives from the
\* preset and the table's max date, and the result is the result of the same
\* call with the preset alone: the explicit bounds decide nothing.
C2_PresetPrecedence ==
  C2_PresetAndExplicit =>
    \A n \in DOMAIN calls :
      /\ calls[n].window = C2_PresetWindow
      /\ calls[n].result =
           run_full_analysis(df, client_id,
             [dateRange |-> DateRange(None, None, params.dateRange.preset)]).result

\* C2 witness: preset "7d" with explicit 2024-01-01 .. 2024-01-31 on a table
\* of June 2024: the preset's window is applied and rows are retained.
C2_Witness ==
  /\ params.dateRange = DateRange(<<2024, 1, 1>>, <<2024, 1, 31>>, <<"7", "d">>)
  /\ calls # <<>>
  /\ calls[1].window # None
  /\ calls[1].window[3] = <<2024, 6, 16>>
  /\ Len(calls[1].filtered.data) > 0
  /\ Len(calls[1].filtered.data) < Len(df.data)

\* The rows of the caller's table the window <<col, start, end>> retains.
C3_Kept(w) ==
  {i \in DOMAIN df.data :
     /\ to_datetime(df.data[i][w[1]]) # NaT
     /\ to_datetime_iso(w[2]) <= to_datetime(df.data[i][w[1]]).v
     /\ to_datetime(df.data[i][w[1]]).v < to_datetime_iso(w[3])}

\* C3: on a table with at least one parseable date, the filter retains exactly
\* the rows with start <= date < end, in the table's order and with the date
\* column parsed: a row dated start is kept, a row dated end is dropped.
C3_HalfOpenWindow ==
  \A n \in DOMAIN calls :
    LET w == calls[n].window
        out == calls[n].filtered
    IN (/\ w # None
        /\ IsISODate(w[2]) /\ IsISODate(w[3])
        /\ \E i \in DOMAIN df.data : to_datetime(df.data[i][w[1]]) # NaT) =>
         /\ out.columns = df.columns
         /\ Len(out.data) = Cardinality(C3_Kept(w))
         /\ \A i \in C3_Kept(w) :
              out.data[Cardinality({j \in C3_Kept(w) : j <= i})]
                = [df.data[i] EXCEPT ![w[1]] = to_datetime(df.data[i][w[1]])]
         /\ \A i \in DOMAIN df.data :
              /\ to_datetime(df.data[i][w[1]]) = Ts(to_datetime_iso(w[2]))
                   => i \in C3_Kept(w)
              /\ to_datetime(df.data[i][w[1]]) = Ts(to_datetime_iso(w[3]))
                   => \A k \in DOMAIN out.data :
                        out.data[k][w[1]] # Ts(to_datetime_iso(w[3]))

\* C3 witness: a filtered call whose table has a row dated exactly start,
\* which is retained, and a row dated exactly end, which is not.
C3_Witness ==
  \E n \in DOMAIN calls :
    /\ calls[n].window # None
    /\ IsISODate(calls[n].window[2]) /\ IsISODate(calls[n].window[3])
    /\ \E i \in DOMAIN df.data :
         to_datetime(df.data[i][calls[n].window[1]])
           = Ts(to_datetime_iso(calls[n].window[2]))
    /\ \E i \in DOMAIN df.data :
         to_datetime(df.data[i][calls[n].window[1]])
           = Ts(to_datetime_iso(calls[n].window[3]))
    /\ Len(calls[n].filtered.data) = 1
    /\ calls[n].filtered.data[1][calls[n].window[1]]
         = Ts(to_datetime_iso(calls[n].window[2]))

\* C7: the KPI mapping holds "Void $" / "Void Rate %" only if the void_flag
\* role resolved, the discount keys only if the discount role resolved, the
\* removal keys only if the removal role resolved; and once the amount
\* resolved on a table with rows, each pair is there exactly when its own role
\* resolved, whatever the other two roles did.
C7_KpiKeyOmission ==
  \A n \in DOMAIN calls :
    LET c == calls[n]
        keys == DOMAIN c.result.kpis
        ran == ~IsEmpty(c.filtered) /\ c.schema.amount # None
        Pair(a, b, role) ==
          /\ (a \in keys \/ b \in keys) => role # None
          /\ (ran /\ role # None) => (a \in keys /\ b \in keys)
    IN /\ Pair("Void $", "Void Rate %", c.schema.void_flag)
       /\ Pair("Discount $", "Discount Rate %", c.schema.discount_amount)
       /\ Pair("Removal $", "Removal Rate %", c.schema.removal_flag_or_amount)

\* C7 witness: a call whose KPIs have Revenue and the discount keys and no
\* void and no removal key, the discount role alone having resolved.
C7_Witness ==
  \E n \in DOMAIN calls :
    /\ calls[n].schema.void_flag = None
    /\ calls[n].schema.removal_flag_or_amount = None
    /\ calls[n].schema.discount_amount # None
    /\ DOMAIN calls[n].result.kpis \cap
         {"Revenue", "Void $", "Void Rate %", "Discount $", "Discount Rate %",
          "Removal $", "Removal Rate %"}
         = {"Revenue", "Discount $", "Discount Rate %"}

\* The placeholder of a table without data.
C8_Placeholder ==
  [columns |-> <<"message">>, data |-> <<[message |-> <<"No data available">>]>>]

\* C8: for every client id, a call whose table has no rows, initially or
\* after the date filter, returns the empty structure: the client id, no KPI,
\* the four chart arrays empty, the three tables the placeholder, and a
\* dataCoverage with null minDate, maxDate and dateCol.
C8_EmptyResponse ==
  \A n \in DOMAIN calls :
    Len(calls[n].filtered.data) = 0 =>
      LET r == calls[n].result
      IN /\ r.clientId = client_id
         /\ DOMAIN r.kpis = {}
         /\ r.charts = [hour_of_day |-> <<>>, day_of_week |-> <<>>,
                        revenue_heatmap |-> <<>>, hourly_revenue |-> <<>>]
         /\ r.tables = [waste_efficiency |-> C8_Placeholder,
                        employee_performance |-> C8_Placeholder,
                        menu_volatility |-> C8_Placeholder]
         /\ r.dataCoverage.minDate = None
         /\ r.dataCoverage.maxDate = None
         /\ r.dataCoverage.dateCol = None

\* C8 witness: a table with rows and parseable dates that the date filter
\* empties, answered with the empty structure.
C8_Witness ==
  \E n \in DOMAIN calls :
    /\ Len(df.data) > 0
    /\ calls[n].window # None
    /\ Len(calls[n].filtered.data) = 0
    /\ calls[n].result.tables.menu_volatility = C8_Placeholder
    /\ calls[n].result.dataCoverage.maxDate = None

C10_Days(c, item) ==
  {DateOf(to_datetime(c.filtered.data[i][c.schema.datetime]).v) :
     i \in {j \in DOMAIN c.filtered.data :
              /\ c.filtered.data[j][c.schema.item] = item
              /\ c.schema.datetime # None
              /\ to_datetime(c.filtered.data[j][c.schema.datetime]) # NaT
              /\ notna(c.filtered.data[j][c.schema.amount])}}

\* The sum of the amounts of the counted rows of item on one day.
C10_DaySum(c, item, day) ==
  SumCol(c.filtered, c.schema.amount,
         {j \in DOMAIN c.filtered.data :
            /\ c.filtered.data[j][c.schema.item] = item
            /\ to_datetime(c.filtered.data[j][c.schema.datetime]) # NaT
            /\ DateOf(to_datetime(c.filtered.data[j][c.schema.datetime]).v) = day
            /\ notna(c.filtered.data[j][c.schema.amount])})

\* C10: in the menu volatility table no Volatility is NaN; an item whose rows
\* all fall on one calendar day, or that has no parseable date, has
\* Volatility 0; and an item on two days has the deviation of its two daily
\* sums a and b (as the exact square (a - b)^2 / 2): one summed value per
\* item and day.
C10_SingleDayVolatility ==
  \A n \in DOMAIN calls :
    LET c == calls[n]
        table == c.result.tables.menu_volatility
    IN (~IsEmpty(c.filtered) /\ table.columns # <<"message">>) =>
         \A k \in DOMAIN table.data :
           LET row == table.data[k]
               days == C10_Days(c, row["Item"])
           IN /\ ~IsNaN(row["Volatility"])
              /\ row["Volatility"][2] # 0
              /\ Cardinality(days) <= 1 => row["Volatility"] = <<0, 1>>
              /\ Cardinality(days) = 2 =>
                   LET a == C10_DaySum(c, row["Item"], SetMin(days))
                       b == C10_DaySum(c, row["Item"], SetMax(days))
                   IN row["Volatility"][1] * 2 = (a - b) * (a - b) * row["Volatility"][2]

\* C10 witness: an item with two rows of different amounts on one calendar
\* day, another item with rows on other days, and Volatility 0 for the first.
C10_Witness ==
  \E n \in DOMAIN calls :
    LET c == calls[n]
        table == c.result.tables.menu_volatility
    IN /\ ~IsEmpty(c.filtered)
       /\ table.columns # <<"message">>
       /\ \E k \in DOMAIN table.data :
            /\ Cardinality(C10_Days(c, table.data[k]["Item"])) = 1
            /\ table.data[k]["Count"] = 2
            /\ table.data[k]["Volatility"] = <<0, 1>>

-----------------------------------------------------------------------------
(* The claim about the preset window, checked under SpecPreset *)

\* The number a text of digits reads as.
C4_Number(s) ==
  LET digit(c) == CASE c = "0" -> 0 [] c = "1" -> 1 [] c = "2" -> 2 [] c = "3" -> 3
                    [] c = "4" -> 4 [] c = "5" -> 5 [] c = "6" -> 6 [] c = "7" -> 7
                    [] c = "8" -> 8 [] c = "9" -> 9
      RECURSIVE Pow10(_)
      Pow10(k) == IF k = 0 THEN 1 ELSE 10 * Pow10(k - 1)
      RECURSIVE Value(_)
      Value(k) == IF k = 0 THEN 0
                  ELSE Value(k - 1) + digit(s[k]) * Pow10(Len(s) - k)
  IN Value(Len(s))

\* C4: for a token <n>d, <n>w or <n>y, or one that ends in none of d/w/y,
\* compute_preset_window returns end = date(max_date) + 1 day and
\* start = end - N days, N = n, 7 n, 365 n or 30, both as dates without a time
\* of day; ("30d", 2024-06-15) gives 2024-05-17 and 2024-06-16.
C4_PresetWindow ==
  (pc = "compute_preset_window" /\ preset # <<>>) =>
    LET unit == preset[Len(preset)]
        prefix == SubSeq(preset, 1, Len(preset) - 1)
        numeric == /\ prefix # <<>>
                   /\ \A i \in DOMAIN prefix :
                        prefix[i] \in {"0", "1", "2", "3", "4", "5", "6", "7", "8", "9"}
        N == CASE unit = "d" -> C4_Number(prefix)
               [] unit = "w" -> 7 * C4_Number(prefix)
               [] unit = "y" -> 365 * C4_Number(prefix)
               [] OTHER -> 30
        end == (max_date \div 24) + 1
    IN /\ (unit \notin {"d", "w", "y"} \/ numeric) =>
            /\ window # Raise
            /\ IsISODate(window[1]) /\ IsISODate(window[2])
            /\ to_datetime_iso(window[2]) = end * 24
            /\ to_datetime_iso(window[1]) = (end - N) * 24
       /\ (preset = <<"3", "0", "d">> /\ max_date \div 24 = 19889) =>
            window = << <<2024, 5, 17>>, <<2024, 6, 16>> >>

\* C4 witness: ("30d", 2024-06-15T10:00) answered 2024-05-17 .. 2024-06-16.
C4_Witness ==
  /\ pc = "compute_preset_window"
  /\ preset = <<"3", "0", "d">>
  /\ max_date = 19889 * 24 + 10
  /\ window = << <<2024, 5, 17>>, <<2024, 6, 16>> >>

\* C16: for every token compute_preset_window accepts and every max date, the
\* returned start is not later than the returned end.
C16_StartNotAfterEnd ==
  (pc = "compute_preset_window" /\ window # Raise) =>
    to_datetime_iso(window[1]) <= to_datetime_iso(window[2])

-----------------------------------------------------------------------------
(* The claims about the resolvers, checked under SpecCol *)

\* The headers of the table that match candidate i in a phase: equal to it
\* once both are lower-cased, or containing it.
C5_Matching(i, phase) ==
  {h \in Range(df.columns) :
     IF phase = "exact" THEN lower(h) = lower(candidates[i])
     ELSE IsSubstring(lower(candidates[i]), lower(h))}

\* The phase that decides: the exact one when any candidate has an exact
\* match, else the contains one when the mode allows it and it has a match.
C5_Phase ==
  IF \E i \in DOMAIN candidates : C5_Matching(i, "exact") # {} THEN "exact"
  ELSE IF mode = "contains"
          /\ \E i \in DOMAIN candidates : C5_Matching(i, "contains") # {}
  THEN "contains"
  ELSE "none"

\* The earliest candidate with a match in the deciding phase.
C5_Deciding ==
  CHOOSE i \in DOMAIN candidates :
    /\ C5_Matching(i, C5_Phase) # {}
    /\ \A j \in 1..(i - 1) : C5_Matching(j, C5_Phase) = {}

\* No two headers tie for the deciding candidate.
C5_NoTie ==
  C5_Phase = "none" \/ Cardinality(C5_Matching(C5_Deciding, C5_Phase)) = 1

\* The header lists that are permutations of the table's.
C5_Permutations ==
  {q \in [DOMAIN df.columns -> Range(df.columns)] : Range(q) = Range(df.columns)}

\* C5 as stated: find_col returns the same header for every permutation of
\* the header list.
C5_OrderIndependence ==
  (pc = "find_col" /\ ~IsEmpty(df)) =>
    \A q \in C5_Permutations :
      find_col([df EXCEPT !.columns = q], candidates, mode) = found

\* C5 as amended: on a table with rows in which no two headers tie for the
\* deciding candidate, find_col returns the one header matching the earliest
\* candidate of the deciding phase, for every permutation of the header list;
\* headers {"Net_Price", "Total"} with candidates ["net_price", "total"] give
\* "Net_Price" in both orders.
C5_OrderIndependentWithoutTies ==
  (pc = "find_col" /\ ~IsEmpty(df)) =>
    /\ C5_NoTie =>
         /\ \A q \in C5_Permutations :
              find_col([df EXCEPT !.columns = q], candidates, mode) = found
         /\ IF C5_Phase = "none" THEN found = None
            ELSE {found} = C5_Matching(C5_Deciding, C5_Phase)
    /\ (Range(df.columns) = {hNet_Price, hTotal} /\ candidates = ExampleCandidates)
         => found = hNet_Price

\* C5 witness: headers ["Total", "Net_Price"], the later candidate's header
\* first, resolved to "Net_Price".
C5_Witness ==
  /\ pc = "find_col"
  /\ ~IsEmpty(df)
  /\ df.columns = <<hTotal, hNet_Price>>
  /\ candidates = ExampleCandidates
  /\ found = hNet_Price

\* The earliest candidate with a match in a phase, 0 when none has one.
C22_First(phase) ==
  LET hits == {i \in DOMAIN candidates : C5_Matching(i, phase) # {}}
  IN IF hits = {} THEN 0 ELSE CHOOSE i \in hits : \A j \in hits : i <= j

\* C22: find_col returns a substring match only when no candidate has an
\* exact match.  When any candidate has an exact match, the header returned
\* matches the earliest such candidate exactly, even if an earlier candidate
\* is a substring of some header; otherwise, in 'contains' mode, it contains
\* the earliest candidate that is a substring of a header; otherwise nothing
\* is returned.
C22_ExactBeforeContains ==
  (pc = "find_col" /\ ~IsEmpty(df)) =>
    IF C22_First("exact") # 0
    THEN found \in C5_Matching(C22_First("exact"), "exact")
    ELSE IF mode = "contains" /\ C22_First("contains") # 0
    THEN found \in C5_Matching(C22_First("contains"), "contains")
    ELSE found = None

\* Candidates ["total", "net_price"] on headers ["Grand Total", "Net_Price"]
\* in 'contains' mode: "total" is in "Grand Total", "net_price" matches
\* exactly, and "Net_Price" is returned.
C22_Witness ==
  /\ pc = "find_col"
  /\ mode = "contains"
  /\ ~IsEmpty(df)
  /\ df.columns = <<hGrandTotal, hNet_Price>>
  /\ candidates = ReversedCandidates
  /\ found = hNet_Price

\* The headers that tie with the returned one: for find_col those matching
\* the deciding candidate in the deciding phase, for find_column_fuzzy those
\* with the normalized name of the returned header.
C23_Ties ==
  IF pc = "find_col" THEN C5_Matching(C5_Deciding, C5_Phase)
  ELSE {h \in Range(df.columns) :
          normalize_column_name(h) = normalize_column_name(found)}

\* C23: when several headers tie for the same candidate in the same phase,
\* the resolver returns the one that comes first in the table's column order.
C23_FirstHeaderWins ==
  (pc \in {"find_col", "find_column_fuzzy"} /\ ~IsEmpty(df) /\ found # None) =>
    LET first == CHOOSE i \in DOMAIN df.columns :
                   /\ df.columns[i] \in C23_Ties
                   /\ \A j \in 1..(i - 1) : df.columns[j] \notin C23_Ties
    IN found = df.columns[first]

\* A table with rows whose only header is "Order Date", "order_date" or
\* "OrderDate", resolved against the single candidate "order date".
C6_Case ==
  /\ ~IsEmpty(df)
  /\ Len(df.columns) = 1
  /\ df.columns[1] \in {hOrderDate, hOrder_date, hOrderDateJoined}
  /\ candidates = OrderDateCandidates

-----------------------------------------------------------------------------
(* The date column, checked under SpecDate *)

\* The business-specific and the generic date names, lower-cased.
C24_Business ==
  {lower(hSentDate), lower(hOrderDate), lower(hBusinessDate), lower(hCloseDate)}
C24_Generic == {lower(hDate), lower(hTimestamp)}

\* C24: a preferred header that is a header of the table is returned as it
\* is; otherwise, on a table that has a business-specific date header and a
\* generic one, find_date_column returns a business-specific header.
C24_BusinessBeforeGeneric ==
  (pc = "find_date_column" /\ ~IsEmpty(df)) =>
    LET names == {lower(h) : h \in Range(df.columns)}
    IN IF args # None /\ args \in Range(df.columns) THEN found = args
       ELSE (names \cap C24_Business # {} /\ names \cap C24_Generic # {})
              => (found # None /\ lower(found) \in C24_Business)

-----------------------------------------------------------------------------
(* The claims about htx_tap_analytics, checked under SpecAnalytics *)

\* The rate n / d of a row is a number below k.
C11_Below(q, k) ==
  \/ q[2] > 0 /\ q[1] < k * q[2]
  \/ q[2] < 0 /\ q[1] > k * q[2]

\* The rate of a row is a number, or an infinity (x / 0 with x # 0).
C11_Defined(q) == ~(q[1] = 0 /\ q[2] = 0)

C18_Servers(t) ==
  IF hServer \in Range(t.columns)
  THEN {t.data[i][hServer] : i \in {j \in DOMAIN t.data : notna(t.data[j][hServer])}}
  ELSE {}

\* C18: when analyze_waste_efficiency runs (the sales table has rows, a
\* revenue and a server column), every distinct server of the sales table
\* appears exactly once in its output; a server without rows in the voids
\* table has Void_Value = 0 and one without rows in the removed table has
\* Removed_Value = 0; servers found only in an auxiliary table do not appear.
C18_LeftJoins ==
  (/\ pc = "analyze_waste_efficiency"
   /\ ~IsEmpty(data.sales)
   /\ {hServer, hNetPrice} \subseteq Range(data.sales.columns)) =>
    /\ {ret[n].Server : n \in DOMAIN ret} = C18_Servers(data.sales)
    /\ Len(ret) = Cardinality(C18_Servers(data.sales))
    /\ \A n \in DOMAIN ret :
         /\ ret[n].Server \notin C18_Servers(data.voids) => ret[n].Void_Value = 0
         /\ ret[n].Server \notin C18_Servers(data.removed) => ret[n].Removed_Value = 0

\* C18 witness: server B, without rows in the voids and the removed table,
\* is in the output with zeros next to server A, which has voids; server C,
\* found only in the voids table, is not.
C18_Witness ==
  /\ pc = "analyze_waste_efficiency"
  /\ ServerC \in C18_Servers(data.voids)
  /\ {ret[n].Server : n \in DOMAIN ret} = {ServerA, ServerB}
  /\ \E n \in DOMAIN ret :
       ret[n].Server = ServerB /\ ret[n].Void_Value = 0 /\ ret[n].Removed_Value = 0
  /\ \E n \in DOMAIN ret : ret[n].Server = ServerA /\ ret[n].Void_Value > 0

-----------------------------------------------------------------------------
(* The transaction count, checked under Spec *)

\* The calls whose KPI aggregator passed its guard: the aggregated table has
\* rows and the amount role resolved.
C21_Ran(c) == ~IsEmpty(c.filtered) /\ c.schema.amount # None

\* The distinct values of the order-id column of the aggregated table that
\* are not missing.
C21_OrderIds(c) ==
  {c.filtered.data[i][c.schema.order_id] : i \in DOMAIN c.filtered.data}
    \ {NaN, NaT}

\* C21: when the amount role resolved, Transactions is the number of distinct
\* order ids and transactionsLabel "Transactions" if the order-id role
\* resolved, and Transactions is the number of rows and transactionsLabel
\* "Line Items" otherwise.
C21_Transactions ==
  \A n \in DOMAIN calls :
    LET c == calls[n]
        kpis == c.result.kpis
    IN C21_Ran(c) =>
         IF c.schema.order_id # None
         THEN /\ kpis["Transactions"] = Float(Cardinality(C21_OrderIds(c)))
              /\ kpis["transactionsLabel"] = "Transactions"
         ELSE /\ kpis["Transactions"] = Float(Len(c.filtered.data))
              /\ kpis["transactionsLabel"] = "Line Items"

\* Two rows of one order: one transaction.
C21_Witness ==
  \E n \in DOMAIN calls :
    LET c == calls[n]
    IN /\ C21_Ran(c)
       /\ c.schema.order_id = hOrderId
       /\ Len(c.filtered.data) = 2
       /\ c.result.kpis["Transactions"] = Float(1)
       /\ c.result.kpis["transactionsLabel"] = "Transactions"

-----------------------------------------------------------------------------
(* The chart builders' date column, checked under Spec *)

\* The headers of the aggregated table whose lower-cased name is "order date".
C17_Headers(c) == {h \in Range(c.filtered.columns) : lower(h) = ORDER_DATE}

\* The coerced amounts of the rows of the aggregated table whose cell under
\* header h parses to hour hr (and, for a day name, to that day), summed.
C17_Revenue(c, h, hr, days) ==
  SumF([i \in DOMAIN c.filtered.data |-> to_numeric0(c.filtered.data[i][c.schema.amount])],
       {i \in DOMAIN c.filtered.data :
          /\ to_datetime(c.filtered.data[i][h]) # NaT
          /\ HourOf(to_datetime(c.filtered.data[i][h]).v) = hr
          /\ DAY_NAMES[DayOfWeek(to_datetime(c.filtered.data[i][h]).v) + 1] \in days})

-----------------------------------------------------------------------------
(* The claims about exports with non-numeric amounts, checked under SpecDirty *)

\* The keys of the structure run_full_analysis returns.
C12_Structure == {"clientId", "kpis", "charts", "tables", "dataCoverage"}

\* C12: the KPI aggregator, the chart builders and the table builders are
\* fault-isolated.  Every call that aggregates a table with rows returns the
\* full structure; where the KPI sums fail the kpis slot is the empty
\* mapping, where the hour and day aggregations fail their slots are empty
\* lists, and the builders that did not fail keep their results: the heatmap
\* its 168 cells, the kpis their Revenue.
C12_FaultIsolation ==
  \A n \in DOMAIN calls :
    LET c == calls[n]
    IN ~IsEmpty(c.filtered) =>
         /\ c.result # Raised
         /\ DOMAIN c.result = C12_Structure
         /\ DOMAIN c.result.charts =
              {"hour_of_day", "day_of_week", "revenue_heatmap", "hourly_revenue"}
         /\ DOMAIN c.result.tables =
              {"waste_efficiency", "employee_performance", "menu_volatility"}
         /\ (c.schema.amount # None /\ kpis_raise(c.filtered, c.schema)
               => c.result.kpis = <<>>)
         /\ (c.schema.amount # None /\ ~kpis_raise(c.filtered, c.schema)
               => "Revenue" \in DOMAIN c.result.kpis)
         /\ (C1_BuildersRun(c) /\ agg_raises(c.filtered, c.schema)
               => /\ c.result.charts.hour_of_day = <<>>
                  /\ c.result.charts.day_of_week = <<>>)
         /\ (C1_BuildersRun(c)
               => Len(c.result.charts.revenue_heatmap) = HoursInDay * Len(DAY_NAMES))

\* C13: run_full_analysis never raises for a data-quality issue.  Every call
\* returns, and where the amount role resolved Revenue is the sum of the
\* numeric cells of the amount column over the aggregated rows, the cells
\* that are not numbers left out as missing ones are.
C13_NeverRaises ==
  \A n \in DOMAIN calls :
    LET c == calls[n]
    IN /\ c.result # Raised
       /\ (~IsEmpty(c.filtered) /\ c.schema.amount # None
             => c.result.kpis["Revenue"] =
                  Float(SumCol(c.filtered, c.schema.amount, DOMAIN c.filtered.data)))

-----------------------------------------------------------------------------
(* The claims about the table operations, checked under SpecTable *)

C14_Roles ==
  {"amount", "datetime", "employee", "item", "category", "void_flag",
   "discount_amount", "removal_flag_or_amount", "reason", "order_id"}

\* C14: detect_schema returns a mapping with exactly the ten role keys; for
\* None and for a table without rows every role is None; every role holds
\* what its own finder gives for the table, whatever the other roles
\* resolved to, and a resolved role is a header of the table.
C14_SchemaTotal ==
  pc = "detect_schema" =>
    /\ DOMAIN ret = C14_Roles
    /\ (DOMAIN df = {} \/ Len(df.data) = 0 => \A r \in C14_Roles : ret[r] = None)
    /\ ret.amount = find_amount_col(df)
    /\ ret.datetime = find_datetime_col(df)
    /\ ret.employee = find_employee_col(df)
    /\ ret.item = find_item_col(df)
    /\ ret.category = find_category_col(df)
    /\ ret.void_flag = find_void_flag_col(df)
    /\ ret.discount_amount = find_discount_amount_col(df)
    /\ ret.removal_flag_or_amount = find_removal_flag_or_amount_col(df)
    /\ ret.reason = find_reason_col(df)
    /\ ret.order_id = find_order_id_col(df)
    /\ \A r \in C14_Roles : ret[r] # None => ret[r] \in Range(df.columns)

\* A table with rows and no amount header: the first role is None, roles
\* after it are resolved.
C14_Witness ==
  /\ pc = "detect_schema"
  /\ DOMAIN df # {} /\ Len(df.data) > 0
  /\ ret.amount = None
  /\ ret.datetime = hOrderDate
  /\ ret.item = hMenuItem
  /\ ret.void_flag = hIsVoid

\* The cases of apply_date_range that do not filter: the named column is not
\* a header of the table, no cell of it parses to a date, or parsing start or
\* end raises.
C15_Absent == args.date_col = None \/ args.date_col \notin Range(df.columns)
C15_NoneParses ==
  \A i \in DOMAIN df.data : to_datetime(df.data[i][args.date_col]) = NaT
C15_BoundsRaise == bound_raises(args.start_iso) \/ bound_raises(args.end_iso)

\* C15: apply_date_range returns in every case, and when the date column is
\* absent, or none of its cells parses, or parsing start / end raises, what it
\* returns is the input table: the same rows in the same order, the cells as
\* they were (the date column not parsed).
C15_UnfilteredOnFailure ==
  pc = "apply_date_range" =>
    /\ DOMAIN df = {} => ret = None
    /\ DOMAIN df # {} =>
         /\ DOMAIN ret = {"columns", "data"}
         /\ (C15_Absent \/ C15_NoneParses \/ C15_BoundsRaise => ret = df)

\* The end does not parse while the table has rows whose Order Date parses.
C15_Witness ==
  /\ pc = "apply_date_range"
  /\ DOMAIN df # {}
  /\ ~C15_Absent /\ ~C15_NoneParses
  /\ bound_raises(args.end_iso)
  /\ Len(df.data) = MaxRows
  /\ ret = df

\* C20: get_data_coverage returns in every case, and for a table in which no
\* date column is resolved, or which has no rows, minDate and maxDate are
\* None, rowCount is the number of rows and columnsSample the first 30
\* headers of the table.
C20_CoverageWithoutDates ==
  (pc = "get_data_coverage" /\ DOMAIN df # {}) =>
    /\ DOMAIN ret = {"minDate", "maxDate", "rowCount", "dateCol", "columnsSample"}
    /\ (ret.dateCol = None \/ Len(df.data) = 0) =>
         /\ ret.minDate = None
         /\ ret.maxDate = None
         /\ ret.rowCount = Len(df.data)
         /\ ret.columnsSample = Take(df.columns, ColumnsSampleSize)

-----------------------------------------------------------------------------
(* The shared tables of htx_tap_analytics, checked under SpecAnalytics *)

\* C19: no analyze_* function changes the tables it is given: at every call
\* the sales, voids and removed tables have the same columns, the same rows
\* and the same cell values after the call as before it.
C19_NoMutation == [][data' = data]_vars

-----------------------------------------------------------------------------
(* The void KPIs, checked under SpecDirty *)

\* The rows of the aggregated table the void flag marks: True in a boolean
\* column, not 0 and not missing in any other column.
C25_Voided(c) ==
  LET t == c.filtered
      flag(i) == t.data[i][c.schema.void_flag]
  IN IF \A i \in DOMAIN t.data : flag(i).k = "bool"
     THEN {i \in DOMAIN t.data : flag(i) = Bool(TRUE)}
     ELSE {i \in DOMAIN t.data : flag(i) \notin {NaN, NaT, Num(0), Bool(FALSE)}}

\* C25: when the void-flag role resolves, "Void $" is the sum of the amount
\* over the rows the flag marks, and "Void Rate %" is Void $ / Revenue * 100
\* for every Revenue other than 0, negative ones included, and 0 when Revenue
\* is 0.
C25_VoidRate ==
  \A n \in DOMAIN calls :
    LET c == calls[n]
        kpis == c.result.kpis
    IN (/\ ~IsEmpty(c.filtered)
        /\ c.result # Raised
        /\ c.schema.amount # None
        /\ c.schema.void_flag # None) =>
         LET revenue == SumCol(c.filtered, c.schema.amount, DOMAIN c.filtered.data)
             void == SumCol(c.filtered, c.schema.amount, C25_Voided(c))
         IN /\ kpis["Void $"] = Float(void)
            /\ kpis["Void Rate %"] =
                 IF revenue = 0 THEN Zero ELSE Quot(void * 100, revenue)

-----------------------------------------------------------------------------
(* The red flags of analyze_discount_integrity, checked under SpecDiscount *)

\* The discounts table and whether the analysis passes its guards: the table
\* has rows and a server and an amount column.
C26_Table == data.discounts
C26_Runs ==
  /\ ~IsEmpty(C26_Table)
  /\ {hServer, hDiscountAmount} \subseteq Range(C26_Table.columns)

\* The rows with an amount above 500 that lack a comment: the comment is
\* missing or empty, or the table has no comment column.
C26_LargeWithoutComment ==
  {i \in DOMAIN C26_Table.data :
     /\ C26_Table.data[i][hDiscountAmount].v > 500
     /\ \/ hComment \notin Range(C26_Table.columns)
        \/ C26_Table.data[i][hComment] \in {NaN, Txt(<<>>)}}

\* The rows whose server is their approver.
C26_SelfApproved ==
  {i \in DOMAIN C26_Table.data :
     /\ hApprover \in Range(C26_Table.columns)
     /\ C26_Table.data[i][hServer] # NaN
     /\ C26_Table.data[i][hServer] = C26_Table.data[i][hApprover]}

\* The red-flag records of a type.
C26_Flags(type) == {n \in DOMAIN ret[3] : ret[3][n]["type"] = type}

\* C26: one red-flag record per offending row: as many 'Large discount
\* without comment' records as rows above 500 without a comment, as many
\* 'Self-approved discount' records as rows whose server is the approver,
\* and no other record, so that a row that is both has two.
C26_OneFlagPerRow ==
  (pc = "analyze_discount_integrity" /\ C26_Runs) =>
    /\ Cardinality(C26_Flags("Large discount without comment"))
         = Cardinality(C26_LargeWithoutComment)
    /\ Cardinality(C26_Flags("Self-approved discount"))
         = Cardinality(C26_SelfApproved)
    /\ Len(ret[3]) = Cardinality(C26_LargeWithoutComment)
                       + Cardinality(C26_SelfApproved)

-----------------------------------------------------------------------------
(* The employee table, checked under SpecEmployee *)

\* The employees of the table and the revenue of one: the sum of the prices
\* of its rows.
C27_Employees == {df.data[i][hServer] : i \in DOMAIN df.data} \ {NaN}
C27_Revenue(e) ==
  SumCol(df, hNetPrice, {i \in DOMAIN df.data : df.data[i][hServer] = e})

\* C27: with the amount and the employee role resolved, the table has one row
\* per employee, at most 50, by Revenue non-increasing; no employee left out
\* has more revenue than one that is listed; Void_Amount and Void_Rate_Pct
\* are columns, and keys of the rows, exactly if the void-flag role resolved.
C27_TopEmployees ==
  (/\ pc = "_compute_employee_performance"
   /\ detect_schema(df).amount = hNetPrice
   /\ detect_schema(df).employee = hServer) =>
    LET rows == ret.data
        listed == {rows[n]["Server"] : n \in DOMAIN rows}
        void_keys == {"Void_Amount", "Void_Rate_Pct"}
        with_void == detect_schema(df).void_flag # None
    IN /\ Len(rows) = IF Cardinality(C27_Employees) < 50
                      THEN Cardinality(C27_Employees) ELSE 50
       /\ Cardinality(listed) = Len(rows)
       /\ listed \subseteq C27_Employees
       /\ \A n \in DOMAIN rows : rows[n]["Revenue"] = Float(C27_Revenue(rows[n]["Server"]))
       /\ \A n \in 1..(Len(rows) - 1) : rows[n]["Revenue"][1] >= rows[n + 1]["Revenue"][1]
       /\ \A e \in C27_Employees \ listed :
            \A n \in DOMAIN rows : C27_Revenue(e) <= rows[n]["Revenue"][1]
       /\ Range(ret.columns) \cap void_keys = IF with_void THEN void_keys ELSE {}
       /\ \A n \in DOMAIN rows :
            DOMAIN rows[n] \cap void_keys = IF with_void THEN void_keys ELSE {}

\* 52 employees with two rows each: 50 listed, the void columns there.
C27_Witness ==
  /\ pc = "_compute_employee_performance"
  /\ detect_schema(df).employee = hServer /\ detect_schema(df).void_flag = hIsVoid
  /\ Cardinality(C27_Employees) = 52
  /\ Len(df.data) = 104
  /\ Len(ret.data) = 50
  /\ ret.data[1]["Revenue"][1] > ret.data[50]["Revenue"][1]

-----------------------------------------------------------------------------
(* Revenue across the three charts, checked under Spec *)

\* The sum of the values under a key over the rows lo..hi of a chart.
RECURSIVE C28_Sum(_, _, _, _)
C28_Sum(chart, key, lo, hi) ==
  IF lo > hi THEN 0
  ELSE IF lo = hi THEN chart[lo][key][1]
  ELSE LET mid == (lo + hi) \div 2
       IN C28_Sum(chart, key, lo, mid) + C28_Sum(chart, key, mid + 1, hi)

\* The rows of the aggregated table whose cell under the first "order date"
\* header is a timestamp or a text that parses, and the sum of their amounts
\* (an amount that is no number counts 0).
C28_Parsed(c) ==
  LET h == CHOOSE h \in C17_Headers(c) :
             \A g \in C17_Headers(c) :
               IndexOf(c.filtered.columns, h) <= IndexOf(c.filtered.columns, g)
  IN {i \in DOMAIN c.filtered.data : c.filtered.data[i][h].k \in {"datestr", "ts"}}
C28_Amount(c) ==
  SumF([i \in DOMAIN c.filtered.data |->
          IF c.filtered.data[i][c.schema.amount].k \in {"num", "bool"}
          THEN c.filtered.data[i][c.schema.amount].v ELSE 0],
       C28_Parsed(c))

\* C28: every chart that is not empty has its full grid of rows, and its
\* revenue sums to the amount of the rows of the aggregated table whose
\* Order Date parses: Net Price over the 24 rows of hour_of_day, Net Price
\* over the 7 rows of day_of_week, revenue over the 168 rows of
\* revenue_heatmap.  A row whose Order Date does not parse adds to none.
C28_RevenueConserved ==
  \A n \in DOMAIN calls :
    LET c == calls[n]
        charts == c.result.charts
    IN c.result # Raised =>
         /\ charts.hour_of_day # <<>> =>
              /\ Len(charts.hour_of_day) = 24
              /\ C28_Sum(charts.hour_of_day, "Net Price", 1, 24) = C28_Amount(c)
         /\ charts.day_of_week # <<>> =>
              /\ Len(charts.day_of_week) = 7
              /\ C28_Sum(charts.day_of_week, "Net Price", 1, 7) = C28_Amount(c)
         /\ charts.revenue_heatmap # <<>> =>
              /\ Len(charts.revenue_heatmap) = 168
              /\ C28_Sum(charts.revenue_heatmap, "revenue", 1, 168) = C28_Amount(c)

\* A call with the three charts filled, on a table with one row whose Order
\* Date parses and one, of non-zero amount, whose Order Date does not.
C28_Witness ==
  \E n \in DOMAIN calls :
    LET c == calls[n]
    IN /\ c.result # Raised
       /\ c.result.charts.hour_of_day # <<>>
       /\ c.result.charts.day_of_week # <<>>
       /\ c.result.charts.revenue_heatmap # <<>>
       /\ C28_Parsed(c) # {}
       /\ C28_Amount(c) # 0
       /\ \E i \in DOMAIN c.filtered.data \ C28_Parsed(c) :
            c.filtered.data[i][c.schema.amount].k = "num"
            /\ c.filtered.data[i][c.schema.amount].v # 0

-----------------------------------------------------------------------------
(* A preset that cannot be resolved, checked under Spec *)

\* The date column and the coverage run_full_analysis works with on the
\* caller's table.
C29_DateCol == run_date_col(df, detect_schema(df))
C29_MaxDate == get_data_coverage(df, C29_DateCol).maxDate

\* The params carry a preset with an explicit bound, and the preset gives no
\* window: the table has no date column, no date of it parses, or the count
\* of the preset is no number.
C29_Unresolved ==
  /\ params.dateRange.preset # None
  /\ params.dateRange.start # None \/ params.dateRange.end # None
  /\ \/ C29_DateCol = None
     \/ C29_MaxDate = None
     \/ compute_preset_window(params.dateRange.preset,
                               to_datetime_iso(C29_MaxDate)) = Raise

\* C29: with a preset that cannot be resolved next to explicit bounds, the
\* run applies no date filter, the explicit bounds are not used instead, the
\* call does not raise and the aggregators get every row of the input.
C29_NoFallback ==
  C29_Unresolved =>
    \A n \in DOMAIN calls :
      /\ calls[n].window = None
      /\ calls[n].filtered = df
      /\ calls[n].result # Raised
      /\ ~IsEmpty(df) => calls[n].result.dataCoverage.rowCount = Len(df.data)

\* A call with the preset "xd" and the bounds 2024-06-09..2024-06-15 on a
\* table with a date column whose dates parse, one of them outside of the
\* bounds: the table aggregated is the whole input.
C29_Witness ==
  /\ calls # <<>>
  /\ C29_Unresolved
  /\ params.dateRange.preset = Pxd
  /\ C29_DateCol # None /\ C29_MaxDate # None
  /\ params.dateRange.start # None /\ params.dateRange.end # None
  /\ apply_date_range(df, C29_DateCol, params.dateRange.start, params.dateRange.end) # df
  /\ calls[1].filtered = df

-----------------------------------------------------------------------------
(* The reason rows of the waste table, checked under SpecWaste *)

\* The amount, void-flag and reason roles resolved and the builder has run.
C30_Ran ==
  /\ pc = "_compute_waste_efficiency"
  /\ detect_schema(df).amount = hNetPrice
  /\ detect_schema(df).void_flag = hIsVoid
  /\ detect_schema(df).reason = hReason

\* The category of a row of the input ("All" without a category column), its
\* voided rows, and the voided rows of a category and a reason.
C30_Category(i) ==
  IF hCategory \in Range(df.columns) THEN df.data[i][hCategory] ELSE Str(0)
C30_Voided == {i \in DOMAIN df.data : df.data[i][hIsVoid] = Bool(TRUE)}
C30_Of(c, r) ==
  {i \in C30_Voided : C30_Category(i) = c /\ df.data[i][hReason] = r}
C30_Reasons(c) ==
  {df.data[i][hReason] : i \in {j \in C30_Voided : C30_Category(j) = c}} \ {NaN}

\* The number of rows all categories give when each gives at most 10.
RECURSIVE C30_Total(_)
C30_Total(cats) ==
  IF cats = {} THEN 0
  ELSE LET c == CHOOSE c \in cats : TRUE
           n == Cardinality(C30_Reasons(c))
       IN (IF n < 10 THEN n ELSE 10) + C30_Total(cats \ {c})

\* The rows returned: reason-level rows only, one per category and reason
\* that has voided rows, at most 10 per category and the highest by
\* Void_Amount, in non-increasing order within the category, at most 100 in
\* all.
C30_Rows ==
  LET rows == ret.data
      listed(c) == {n \in DOMAIN rows : rows[n]["Category"] = c}
      cats == {C30_Category(i) : i \in DOMAIN df.data} \ {NaN}
  IN /\ Len(rows) = IF C30_Total(cats) < 100 THEN C30_Total(cats) ELSE 100
     /\ \A n \in DOMAIN rows :
          /\ DOMAIN rows[n] = {"Category", "Reason", "Void_Amount", "Count"}
          /\ C30_Of(rows[n]["Category"], rows[n]["Reason"]) # {}
          /\ rows[n]["Void_Amount"]
               = Float(SumCol(df, hNetPrice,
                              C30_Of(rows[n]["Category"], rows[n]["Reason"])))
          /\ rows[n]["Count"]
               = Cardinality(C30_Of(rows[n]["Category"], rows[n]["Reason"]))
          /\ \A k \in DOMAIN rows :
               (rows[k]["Category"] = rows[n]["Category"]
                /\ rows[k]["Reason"] = rows[n]["Reason"]) => k = n
     /\ \A c \in cats :
          /\ Cardinality(listed(c)) <= 10
          /\ C30_Reasons(c) = {} => listed(c) = {}
          /\ \A n \in listed(c) :
               /\ (n + 1) \in listed(c) =>
                    rows[n]["Void_Amount"][1] >= rows[n + 1]["Void_Amount"][1]
               /\ Cardinality(listed(c)) = 10 =>
                    \A r \in C30_Reasons(c) \ {rows[k]["Reason"] : k \in listed(c)} :
                      SumCol(df, hNetPrice, C30_Of(c, r)) <= rows[n]["Void_Amount"][1]

\* The columns are those of the preferred order that are a key of some row.
C30_ColumnsOfKeys ==
  ret.columns =
    SelectSeq(<<"Category", "Reason", "Revenue", "Void_Amount", "Void_Rate_Pct", "Count">>,
              LAMBDA k : \E n \in DOMAIN ret.data : k \in DOMAIN ret.data[n])

\* C30 as stated: with the reason role resolved the table holds reason-level
\* rows only (at most 10 per category by Void_Amount descending, at most 100
\* rows, none for a category without voided rows, none with Revenue or
\* Void_Rate_Pct), and the columns are the preferred order restricted to the
\* keys present.
C30_ColumnsFollowKeys == C30_Ran => (C30_Rows /\ C30_ColumnsOfKeys)

\* C30, amended: the same rows; the columns are the preferred order
\* restricted to the keys present when a row is returned, and Category,
\* Revenue, Void_Amount, Void_Rate_Pct when none is.
C30_ReasonRows ==
  C30_Ran =>
    /\ C30_Rows
    /\ ret.data # <<>> => C30_ColumnsOfKeys
    /\ ret.data = <<>> =>
         ret.columns = <<"Category", "Revenue", "Void_Amount", "Void_Rate_Pct">>

\* 11 categories of 11 voided reasons each and one category without a
\* voided row: 100 rows are returned, 10 of the first category.
C30_Witness ==
  /\ C30_Ran
  /\ hCategory \in Range(df.columns)
  /\ Cardinality({df.data[i][hCategory] : i \in DOMAIN df.data}) = 12
  /\ Cardinality(C30_Reasons(Str(1))) = 11
  /\ Len(ret.data) = 100
  /\ Cardinality({n \in DOMAIN ret.data : ret.data[n]["Category"] = Str(1)}) = 10
  /\ ret.columns = <<"Category", "Reason", "Void_Amount", "Count">>

====
